---- MODULE Spec2Model ----
(***************************************************************************)
(* State-machine model of the Xet client core of swift-xet-rust-ffi:       *)
(*   - the process-wide CAS token cache (xet_metadata.rs),                 *)
(*   - metadata resolution over candidate URLs (xet_metadata.rs),          *)
(*   - the download orchestration and batch download (lib.rs).             *)
(*                                                                         *)
(* Strings that the code only compares or formats are TLA+ strings.        *)
(* Strings that the code splits or prefix-matches are sequences of         *)
(* tokens (a repository identifier is the sequence of its '/'-separated    *)
(* segments, a refresh route the sequence of its parts).                   *)
(* Option<T> is a sequence of length 0 (None) or 1 (Some).                 *)
(* Time is counted in ticks; TicksPerSec ticks make one second.            *)
(* Instant is the number of ticks since boot, SystemTime the number of     *)
(* whole seconds UnixAtBoot + now \div TicksPerSec.                        *)
(***************************************************************************)
EXTENDS Integers, Sequences, FiniteSets, TLC

(***************************************************************************)
(* Bounds of the model                                                     *)
(***************************************************************************)
TicksPerSec == 2
MaxTicks == 2
MaxCalls == 3
MaxOps == 1
MaxBatch == 3
NumThreads == 2
UnixAtBoot == 1000
I64Max == 50000

U64Max == 2 * I64Max + 1

Threads == 1..NumThreads

(***************************************************************************)
(* Program constants                                                       *)
(***************************************************************************)
TOKEN_CACHE_SAFETY_WINDOW == 60
HF_ENDPOINT == <<"https://huggingface.co">>

\* XetClient.endpoint, set by new() and with_token()
ENDPOINT == HF_ENDPOINT

None == <<>>
Some(v) == <<v>>
IsSome(o) == Len(o) = 1
Unwrap(o) == o[1]

VARIABLES
    now,          \* monotonic clock, ticks since boot
    ticks,        \* number of clock advances so far
    started,      \* number of top-level calls started so far
    TOKEN_CACHE,  \* HashMap<String, CachedToken>
    lock,         \* holder of the TOKEN_CACHE mutex, 0 when free
    files,        \* destinations written on disk
    pc,           \* per thread: position in the running call
    op,           \* per thread: the public operation being run
    req,          \* per thread: arguments of the running download_file
    cand,         \* per thread: index into the candidate URL list
    last_error,   \* per thread: Option<String> of the running loop
    metadata,     \* per thread: Option<FileResolveMetadata>
    route,        \* per thread: refresh_route argument of get_cached_cas_jwt
    jwt,          \* per thread: Option<CasJwtInfo> in hand
    result,       \* per thread: Option<Result> of the last finished call
    batch,        \* per thread: requests, position and results of a batch
    env,          \* the environment variables of the process
    hist          \* per thread: history of the running call (observation only)

vars == <<now, ticks, started, TOKEN_CACHE, lock, files, pc, op, req,
          cand, last_error, metadata, route, jwt, result, batch, env, hist>>

(***************************************************************************)
(* XetError and Result                                                     *)
(***************************************************************************)
XetError(kind, message) == [kind |-> kind, message |-> message]

\* #[error("...: {message}")] of each XetError variant
Display(e) ==
    CASE e.kind = "OperationFailed" -> "Xet operation failed: " \o e.message
      [] e.kind = "InvalidInput" -> "Invalid input: " \o e.message
      [] e.kind = "IoError" -> "IO error: " \o e.message
      [] e.kind = "NetworkError" -> "Network error: " \o e.message
      [] e.kind = "AuthError" -> "Authentication error: " \o e.message
      [] e.kind = "CacheError" -> "Cache error: " \o e.message
      [] OTHER -> "Token error: " \o e.message

NoError == XetError("", "")
Ok(v) == [ok |-> TRUE, val |-> v, err |-> NoError]
Err(e) == [ok |-> FALSE, val |-> <<>>, err |-> e]

\* reason phrase of the statuses the model's servers answer with
StatusText(status) ==
    CASE status = 200 -> "200 OK"
      [] status = 206 -> "206 Partial Content"
      [] status = 302 -> "302 Found"
      [] status = 401 -> "401 Unauthorized"
      [] status = 403 -> "403 Forbidden"
      [] status = 404 -> "404 Not Found"
      [] OTHER -> "500 Internal Server Error"

is_success(status) == status >= 200 /\ status < 300
is_redirection(status) == status >= 300 /\ status < 400
is_client_error(status) == status >= 400 /\ status < 500
is_server_error(status) == status >= 500 /\ status < 600

\* Display of the reqwest::Error of a request that got no response
TransportErrorText(url) == "error sending request for url (" \o url \o ")"

\* Display of the reqwest::Error made by Response::error_for_status
StatusErrorText(status, url) ==
    (IF is_client_error(status) THEN "HTTP status client error ("
                                ELSE "HTTP status server error (")
    \o StatusText(status) \o ") for url (" \o url \o ")"

\* Display of the reqwest::Error of a body that could not be read
BodyErrorText(url) == "error decoding response body for url (" \o url \o ")"

\* String form of a token sequence
RECURSIVE Concat(_)
Concat(parts) == IF parts = <<>> THEN "" ELSE Head(parts) \o Concat(Tail(parts))

\* str::parse::<u64>().ok() of a numeric header value
parse_u64(v) == IF v >= 0 /\ v <= U64Max THEN Some(v) ELSE None

(***************************************************************************)
(* Clocks                                                                  *)
(***************************************************************************)
\* SystemTime::now().duration_since(UNIX_EPOCH).as_secs() at tick t
UnixSecs(t) == UnixAtBoot + (t \div TicksPerSec)

\* Instant::checked_add(Duration::from_secs(secs)): None when the seconds
\* field leaves the signed 64-bit range
Instant_checked_add(instant, secs) ==
    IF (instant \div TicksPerSec) + secs > I64Max
    THEN None
    ELSE Some(instant + secs * TicksPerSec)

\* Instant::checked_sub(Duration::from_secs(secs))
Instant_checked_sub(instant, secs) ==
    IF (instant \div TicksPerSec) - secs < -I64Max - 1
    THEN None
    ELSE Some(instant - secs * TicksPerSec)

\* u64::saturating_sub
saturating_sub(a, b) == IF a > b THEN a - b ELSE 0

\* compute_cache_expiry without the safety window
compute_cache_expiry_no_window(exp, t) ==
    LET added == Instant_checked_add(t, saturating_sub(exp, UnixSecs(t)))
    IN IF IsSome(added) THEN Unwrap(added) ELSE t

\* compute_cache_expiry always taking the fallback Instant::now()
compute_cache_expiry_now(exp, t) == t

\* compute_cache_expiry with the result clamped to the moment of the call
compute_cache_expiry_clamped(exp, t) ==
    LET added == Instant_checked_add(t, saturating_sub(exp, UnixSecs(t)))
        subbed == IF IsSome(added)
                  THEN Instant_checked_sub(Unwrap(added), TOKEN_CACHE_SAFETY_WINDOW)
                  ELSE None
    IN IF IsSome(subbed) /\ Unwrap(subbed) > t THEN Unwrap(subbed) ELSE t

\* fn compute_cache_expiry(exp: u64) -> Instant, called at tick t
compute_cache_expiry(exp, t) ==
    LET now_unix == UnixSecs(t)
        ttl_secs == saturating_sub(exp, now_unix)
        added == Instant_checked_add(t, ttl_secs)
        subbed == IF IsSome(added)
                  THEN Instant_checked_sub(Unwrap(added), TOKEN_CACHE_SAFETY_WINDOW)
                  ELSE None
    IN IF IsSome(subbed) THEN Unwrap(subbed) ELSE t

\* is_valid refusing every entry
is_valid_never(cached, t) == FALSE

\* is_valid accepting every entry
is_valid_always(cached, t) == TRUE

\* CachedToken::is_valid at tick t
is_valid(cached, t) == t < cached.expires_at

\* get_cached_token with the guard kept by the caller
lock_after_lookup_held(t) == t

\* get_cached_token: the MutexGuard is a temporary of the expression and is
\* dropped when the function returns; the mutex is free again
lock_after_lookup(t) == 0

\* get_cached_token returning an entry of the cache whatever its key
get_cached_token_any_key(cache, key) ==
    IF DOMAIN cache # {} THEN Some(cache[CHOOSE k \in DOMAIN cache : k # key \/ DOMAIN cache = {key}])
    ELSE None

\* get_cached_token: the clone of the entry under key, if any
get_cached_token(cache, key) ==
    IF key \in DOMAIN cache THEN Some(cache[key]) ELSE None

\* cache_token leaving an existing entry as it is
cache_token_first_wins(cache, key, token, t) ==
    [k \in (DOMAIN cache) \cup {key} |->
        IF k = key /\ key \notin DOMAIN cache
        THEN [value |-> token, expires_at |-> compute_cache_expiry(token.exp, t),
              cached_at |-> t]
        ELSE cache[k]]

\* cache_token editing the value of an existing entry in place
cache_token_keep_expiry(cache, key, token, t) ==
    [k \in (DOMAIN cache) \cup {key} |->
        IF k = key
        THEN IF key \in DOMAIN cache
             THEN [cache[key] EXCEPT !.value = token]
             ELSE [value |-> token, expires_at |-> compute_cache_expiry(token.exp, t),
                   cached_at |-> t]
        ELSE cache[k]]

\* cache_token: HashMap::insert of a whole new CachedToken under key;
\* cached_at observes the tick of the insert
cache_token(cache, key, token, t) ==
    [k \in (DOMAIN cache) \cup {key} |->
        IF k = key
        THEN [value |-> token, expires_at |-> compute_cache_expiry(token.exp, t),
              cached_at |-> t]
        ELSE cache[k]]

(***************************************************************************)
(* Observation of a running call                                           *)
(***************************************************************************)
NoHist ==
    [attempts |-> <<>>,      \* strategies of download_file, in order of attempt
     succeeded |-> <<>>,     \* strategies that returned Ok
     lookups |-> 0,          \* TOKEN_CACHE reads
     refresh_reqs |-> 0,     \* GET requests sent to a refresh route
     inserts |-> 0,          \* TOKEN_CACHE inserts
     hit |-> FALSE,          \* get_cached_cas_jwt returned the cached value
     heads |-> 0,            \* HEAD requests of metadata resolution
     gets |-> 0,             \* ranged GET requests of metadata resolution
     legacy_gets |-> 0,      \* GET requests of download_file_legacy
     transfers |-> 0,        \* invocations of the transfer engine
     engine_call |-> <<>>,   \* the plan and the token the transfer engine was
                             \* last invoked with
     http_gets |-> 0,        \* HTTP-direct fetches
     http_url |-> <<>>,      \* the URL of the HTTP-direct fetch
     resolved |-> "",        \* outcome of metadata resolution: "xet", "plain",
                             \* "failed", or "" while it is pending
     http_request |-> <<>>,  \* the request http_get_bytes has sent: its URL
                             \* and its Authorization header
     response |-> <<>>]      \* the last request of the candidate loop of
                             \* fetch_file_metadata and its answer, while the
                             \* loop runs and after a direct call of it

(***************************************************************************)
(* The servers' answers to a token refresh request                         *)
(***************************************************************************)
CAS_URL == "https://cas.example.com"

RefreshStatuses == {200, 401, 404, 500}

\* Expiry times (unix seconds) a refresh answer may carry at tick t
CoarseExps(t) == {UnixSecs(t) + 30, UnixSecs(t) + 120}
FineExps(t) ==
    {UnixSecs(t) + 30, UnixSecs(t) + 120, U64Max}

\* An answer is a transport failure (sent = FALSE) or a status with the
\* three token headers, each present or not; expiration -1 stands for a
\* header value that is not an unsigned integer.
RefreshAnswer(sent, status, url, tok, expiration) ==
    [sent |-> sent, status |-> status, x_xet_cas_url |-> url,
     x_xet_access_token |-> tok, x_xet_token_expiration |-> expiration]

\* serials says which distinct tokens the server may hand out for route r
RefreshAnswers(r, serials, exps) ==
    LET tok == [route |-> r, n |-> CHOOSE n \in serials : TRUE]
        e0 == CHOOSE e \in exps : TRUE
    IN {RefreshAnswer(FALSE, 0, None, None, None)}
       \cup {RefreshAnswer(TRUE, st, Some(CAS_URL), Some(tok), Some(e0)) :
                st \in RefreshStatuses \ {200}}
       \cup {RefreshAnswer(TRUE, 200, None, Some(tok), Some(e0)),
             RefreshAnswer(TRUE, 200, Some(CAS_URL), None, Some(e0)),
             RefreshAnswer(TRUE, 200, Some(CAS_URL), Some(tok), None),
             RefreshAnswer(TRUE, 200, Some(CAS_URL), Some(tok), Some(-1))}
       \cup {RefreshAnswer(TRUE, 200, Some(CAS_URL), Some([route |-> r, n |-> n]),
                           Some(e)) : n \in serials, e \in exps}

\* The serial numbers of the tokens a server hands out
Serials == {1}

\* get_cached_cas_jwt going on without the X-Xet-Cas-Url header
cas_jwt_from_answer_without_cas_url(ans, r) ==
    LET url == Concat(r) IN
    IF ~ans.sent
    THEN Err(XetError("NetworkError",
                      "Failed to fetch CAS JWT: " \o TransportErrorText(url)))
    ELSE IF is_client_error(ans.status) \/ is_server_error(ans.status)
    THEN Err(XetError("NetworkError",
                      "Failed to fetch CAS JWT: " \o StatusErrorText(ans.status, url)))
    ELSE IF ~IsSome(ans.x_xet_access_token)
    THEN Err(XetError("NetworkError", "CAS access token header missing"))
    ELSE IF ~IsSome(ans.x_xet_token_expiration)
            \/ ~IsSome(parse_u64(Unwrap(ans.x_xet_token_expiration)))
    THEN Err(XetError("NetworkError", "CAS expiration header missing"))
    ELSE Ok(Some([cas_url |-> IF IsSome(ans.x_xet_cas_url)
                              THEN Unwrap(ans.x_xet_cas_url) ELSE "",
                  access_token |-> Unwrap(ans.x_xet_access_token),
                  exp |-> Unwrap(ans.x_xet_token_expiration)]))

\* get_cached_cas_jwt taking 0 for an expiration header that is missing or
\* is not an unsigned integer
cas_jwt_from_answer_default_expiry(ans, r) ==
    LET url == Concat(r)
        given == IsSome(ans.x_xet_token_expiration)
                 /\ IsSome(parse_u64(Unwrap(ans.x_xet_token_expiration)))
    IN
    IF ~ans.sent
    THEN Err(XetError("NetworkError",
                      "Failed to fetch CAS JWT: " \o TransportErrorText(url)))
    ELSE IF is_client_error(ans.status) \/ is_server_error(ans.status)
    THEN Err(XetError("NetworkError",
                      "Failed to fetch CAS JWT: " \o StatusErrorText(ans.status, url)))
    ELSE IF ~IsSome(ans.x_xet_cas_url)
    THEN Err(XetError("NetworkError", "CAS endpoint header missing"))
    ELSE IF ~IsSome(ans.x_xet_access_token)
    THEN Err(XetError("NetworkError", "CAS access token header missing"))
    ELSE Ok(Some([cas_url |-> Unwrap(ans.x_xet_cas_url),
                  access_token |-> Unwrap(ans.x_xet_access_token),
                  exp |-> IF given THEN Unwrap(ans.x_xet_token_expiration) ELSE 0]))

\* get_cached_cas_jwt from the answer on: Result<CasJwtInfo, XetError>
cas_jwt_from_answer(ans, r) ==
    LET url == Concat(r) IN
    IF ~ans.sent
    THEN Err(XetError("NetworkError",
                      "Failed to fetch CAS JWT: " \o TransportErrorText(url)))
    ELSE IF is_client_error(ans.status) \/ is_server_error(ans.status)
    THEN Err(XetError("NetworkError",
                      "Failed to fetch CAS JWT: " \o StatusErrorText(ans.status, url)))
    ELSE IF ~IsSome(ans.x_xet_cas_url)
    THEN Err(XetError("NetworkError", "CAS endpoint header missing"))
    ELSE IF ~IsSome(ans.x_xet_access_token)
    THEN Err(XetError("NetworkError", "CAS access token header missing"))
    ELSE IF ~IsSome(ans.x_xet_token_expiration)
            \/ ~IsSome(parse_u64(Unwrap(ans.x_xet_token_expiration)))
    THEN Err(XetError("NetworkError", "CAS expiration header missing"))
    ELSE Ok(Some([cas_url |-> Unwrap(ans.x_xet_cas_url),
                  access_token |-> Unwrap(ans.x_xet_access_token),
                  exp |-> Unwrap(ans.x_xet_token_expiration)]))

(***************************************************************************)
(* Repository identifiers and URLs                                         *)
(***************************************************************************)
RECURSIVE Join(_, _)
Join(parts, sep) ==
    IF Len(parts) = 0 THEN ""
    ELSE IF Len(parts) = 1 THEN parts[1]
    ELSE parts[1] \o sep \o Join(Tail(parts), sep)

\* str::to_lowercase on the type segments the model's callers write
to_lowercase(seg) ==
    CASE seg = "Datasets" -> "datasets"
      [] seg = "Models" -> "models"
      [] seg = "Spaces" -> "spaces"
      [] OTHER -> seg

\* A String argument is empty: its split on '/' is the single segment ""
is_empty(segs) == segs = <<"">>

RepoTypeWords == {"models", "model", "datasets", "dataset", "spaces", "space"}

\* hub_client::RepoInfo::try_from(repo_type_str, repo_id) when it accepts
HubRepoInfo(repo_type_str, repo_id) ==
    LET w == to_lowercase(repo_type_str) IN
    [repo_type |-> IF w \in {"datasets", "dataset"} THEN "Dataset"
                   ELSE IF w \in {"spaces", "space"} THEN "Space"
                   ELSE "Model",
     full_name |-> repo_id]

\* parse_repo without the check of the number of segments
parse_repo_any_length(repo, accepted) ==
    LET parts == repo
        whole == Join(repo, "/")
        typed == Len(parts) >= 3 /\ to_lowercase(parts[1]) \in RepoTypeWords
        repo_type_str == IF typed THEN parts[1] ELSE "model"
        repo_id == IF typed THEN Join(Tail(parts), "/") ELSE whole
    IN IF ~accepted
       THEN Err(XetError("InvalidInput", "Invalid repository: rejected by hub_client"))
       ELSE Ok(Some(HubRepoInfo(repo_type_str, repo_id)))

\* parse_repo; accepted says whether the external RepoInfo::try_from accepts
parse_repo(repo, accepted) ==
    LET parts == repo
        whole == Join(repo, "/")
        typed == Len(parts) >= 3 /\ to_lowercase(parts[1]) \in RepoTypeWords
        repo_type_str == IF typed THEN parts[1] ELSE "model"
        repo_id == IF typed THEN Join(Tail(parts), "/") ELSE whole
    IN IF Len(parts) < 2
       THEN Err(XetError("InvalidInput",
                "Repository identifier must be in format 'owner/repo' or 'type/owner/repo', got: "
                \o whole))
       ELSE IF ~accepted
       THEN Err(XetError("InvalidInput", "Invalid repository: rejected by hub_client"))
       ELSE Ok(Some(HubRepoInfo(repo_type_str, repo_id)))

repo_type_plural(repo_type) ==
    CASE repo_type = "Model" -> "models"
      [] repo_type = "Dataset" -> "datasets"
      [] OTHER -> "spaces"

canonical_repo_prefix(type_plural) ==
    CASE type_plural = "models" -> ""
      [] type_plural = "datasets" -> "datasets/"
      [] type_plural = "spaces" -> "spaces/"
      [] OTHER -> ""

\* urlencoding::encode of a string given by its '/'-separated segments, the
\* segments being made of unreserved characters
encode(segs) == Join(segs, "%2F")

\* str::trim_end_matches('/') of a token sequence whose "/" are own tokens
RECURSIVE trim_end_slashes(_)
trim_end_slashes(toks) ==
    IF Len(toks) > 0 /\ toks[Len(toks)] = "/"
    THEN trim_end_slashes(SubSeq(toks, 1, Len(toks) - 1))
    ELSE toks

\* candidate_urls without the direct resolve form that closes the list
candidate_urls_three(endpoint, type_plural, repo_full_name, path, revision) ==
    LET ep == Concat(trim_end_slashes(endpoint))
        encoded_path == encode(path)
        encoded_rev == encode(revision)
        canonical_prefix == canonical_repo_prefix(type_plural)
    IN << ep \o "/" \o canonical_prefix \o repo_full_name \o "/resolve/"
             \o encoded_rev \o "/" \o encoded_path,
          ep \o "/api/" \o type_plural \o "/" \o repo_full_name \o "/resolve/"
             \o encoded_rev \o "/" \o encoded_path,
          ep \o "/api/" \o type_plural \o "/" \o repo_full_name \o "/resolve/"
             \o encoded_path \o "?revision=" \o encoded_rev >>

\* candidate_urls of fetch_file_metadata
candidate_urls(endpoint, type_plural, repo_full_name, path, revision) ==
    LET ep == Concat(trim_end_slashes(endpoint))
        encoded_path == encode(path)
        encoded_rev == encode(revision)
        canonical_prefix == canonical_repo_prefix(type_plural)
    IN << ep \o "/" \o canonical_prefix \o repo_full_name \o "/resolve/"
             \o encoded_rev \o "/" \o encoded_path,
          ep \o "/api/" \o type_plural \o "/" \o repo_full_name \o "/resolve/"
             \o encoded_rev \o "/" \o encoded_path,
          ep \o "/api/" \o type_plural \o "/" \o repo_full_name \o "/resolve/"
             \o encoded_path \o "?revision=" \o encoded_rev,
          ep \o "/" \o repo_full_name \o "/resolve/"
             \o encoded_rev \o "/" \o encoded_path >>

\* XetClient::build_resolve_urls
build_resolve_urls(endpoint, repo_info, path, revision) ==
    LET ep == Concat(endpoint)
        encoded_path == encode(path)
        encoded_rev == encode(revision)
        canonical_prefix ==
            CASE repo_info.repo_type = "Model" -> ""
              [] repo_info.repo_type = "Dataset" -> "datasets/"
              [] OTHER -> "spaces/"
    IN << ep \o "/" \o canonical_prefix \o repo_info.full_name \o "/resolve/"
             \o encoded_rev \o "/" \o encoded_path,
          ep \o "/api/" \o repo_type_plural(repo_info.repo_type) \o "/"
             \o repo_info.full_name \o "/resolve/" \o encoded_rev \o "/" \o encoded_path,
          ep \o "/api/" \o repo_type_plural(repo_info.repo_type) \o "/"
             \o repo_info.full_name \o "/resolve/" \o encoded_path
             \o "?revision=" \o encoded_rev >>

\* Refresh routes the model's servers name
ROUTE_1 == <<"https://huggingface.co", "/api/models/o/r/xet-read-token/main">>
ROUTE_2 == <<"https://huggingface.co", "/api/datasets/o/r/xet-read-token/main">>
Routes == {ROUTE_1, ROUTE_2}

(***************************************************************************)
(* Response headers of metadata resolution                                 *)
(***************************************************************************)
\* rewrite_refresh_route on token sequences: HF_ENDPOINT is one token
RECURSIVE trim_start_matches(_, _)
trim_start_matches(toks, prefix) ==
    IF Len(toks) >= Len(prefix) /\ Len(prefix) > 0
       /\ SubSeq(toks, 1, Len(prefix)) = prefix
    THEN trim_start_matches(SubSeq(toks, Len(prefix) + 1, Len(toks)), prefix)
    ELSE toks

starts_with(toks, prefix) ==
    Len(toks) >= Len(prefix) /\ SubSeq(toks, 1, Len(prefix)) = prefix

\* rewrite_refresh_route with the route left as the server named it
rewrite_refresh_route_identity(r, endpoint) == r

\* fn rewrite_refresh_route
rewrite_refresh_route(r, endpoint) ==
    IF starts_with(r, HF_ENDPOINT) /\ endpoint # <<>>
    THEN trim_end_slashes(endpoint) \o trim_start_matches(r, HF_ENDPOINT)
    ELSE r

\* extract_refresh_route: the Link value is the sequence of its
\* ','-separated fragments, each with its rel (lowercased) and, if it has a
\* <...> part, the trimmed text inside
RECURSIVE extract_from_fragments(_, _)
extract_from_fragments(frags, endpoint) ==
    IF frags = <<>> THEN None
    ELSE IF Head(frags).rel = "xet-auth" /\ IsSome(Head(frags).target)
    THEN Some(rewrite_refresh_route(Unwrap(Head(frags).target), endpoint))
    ELSE extract_from_fragments(Tail(frags), endpoint)

extract_refresh_route(headers, endpoint) ==
    IF IsSome(headers.link)
    THEN extract_from_fragments(Unwrap(headers.link), endpoint)
    ELSE None

\* parse_xet_file_data looking at the x-xet-refresh-route header first
parse_xet_file_data_header_first(headers, endpoint) ==
    IF ~IsSome(headers.x_xet_hash) THEN None
    ELSE LET from_link == extract_refresh_route(headers, endpoint)
             refresh_route ==
                 IF IsSome(headers.x_xet_refresh_route)
                 THEN Some(rewrite_refresh_route(Unwrap(headers.x_xet_refresh_route),
                                                 endpoint))
                 ELSE from_link
         IN IF IsSome(refresh_route)
            THEN Some([file_hash |-> Unwrap(headers.x_xet_hash),
                       refresh_route |-> Unwrap(refresh_route)])
            ELSE None

\* fn parse_xet_file_data
parse_xet_file_data(headers, endpoint) ==
    IF ~IsSome(headers.x_xet_hash) THEN None
    ELSE LET from_link == extract_refresh_route(headers, endpoint)
             refresh_route ==
                 IF IsSome(from_link) THEN from_link
                 ELSE IF IsSome(headers.x_xet_refresh_route)
                 THEN Some(rewrite_refresh_route(Unwrap(headers.x_xet_refresh_route),
                                                 endpoint))
                 ELSE None
         IN IF IsSome(refresh_route)
            THEN Some([file_hash |-> Unwrap(headers.x_xet_hash),
                       refresh_route |-> Unwrap(refresh_route)])
            ELSE None

\* parse_total_from_content_range: the value is the sequence of its
\* '/'-separated parts, a part that is not an unsigned integer being -1
parse_total_from_content_range(value) ==
    IF Len(value) = 0 THEN None ELSE parse_u64(value[Len(value)])

\* parse_file_size with Content-Length looked at first
parse_file_size_length_first(headers) ==
    LET linked == IF IsSome(headers.x_linked_size)
                  THEN parse_u64(Unwrap(headers.x_linked_size)) ELSE None
        ranged == IF IsSome(headers.content_range)
                  THEN parse_total_from_content_range(Unwrap(headers.content_range))
                  ELSE None
        length == IF IsSome(headers.content_length)
                  THEN parse_u64(Unwrap(headers.content_length)) ELSE None
    IN IF IsSome(length) THEN length
       ELSE IF IsSome(linked) THEN linked
       ELSE ranged

\* parse_file_size: Option<u64>, None standing for the NetworkError
parse_file_size(headers) ==
    LET linked == IF IsSome(headers.x_linked_size)
                  THEN parse_u64(Unwrap(headers.x_linked_size)) ELSE None
        ranged == IF IsSome(headers.content_range)
                  THEN parse_total_from_content_range(Unwrap(headers.content_range))
                  ELSE None
        length == IF IsSome(headers.content_length)
                  THEN parse_u64(Unwrap(headers.content_length)) ELSE None
    IN IF IsSome(linked) THEN linked
       ELSE IF IsSome(ranged) THEN ranged
       ELSE length

\* parse_metadata_from_response; url is response.url()
parse_metadata_from_response(headers, url, endpoint) ==
    LET etag == IF IsSome(headers.x_linked_etag) THEN headers.x_linked_etag
                ELSE headers.etag
        size == parse_file_size(headers)
    IN IF ~IsSome(headers.x_repo_commit)
       THEN Err(XetError("NetworkError", "Missing X-Repo-Commit header"))
       ELSE IF ~IsSome(etag)
       THEN Err(XetError("NetworkError", "Missing ETag header"))
       ELSE IF ~IsSome(size)
       THEN Err(XetError("NetworkError", "Missing file size headers in response"))
       ELSE Ok(Some([download_url |-> url,
                     etag |-> Unwrap(etag),
                     commit_hash |-> Unwrap(headers.x_repo_commit),
                     size |-> Unwrap(size),
                     xet_file_data |-> parse_xet_file_data(headers, endpoint)]))

(***************************************************************************)
(* The servers' answers to the HEAD and ranged GET of metadata resolution  *)
(***************************************************************************)
Headers(commit, linked_etag, etag, linked_size, content_range, content_length, hash, link, refresh_route) ==
    [x_repo_commit |-> commit, x_linked_etag |-> linked_etag, etag |-> etag,
     x_linked_size |-> linked_size, content_range |-> content_range,
     content_length |-> content_length, x_xet_hash |-> hash, link |-> link,
     x_xet_refresh_route |-> refresh_route]

NoHeaders == Headers(None, None, None, None, None, None, None, None, None)

LinkFragment(rel, target) == [rel |-> rel, target |-> target]

H_XET_LINK ==
    Headers(Some("c0ffee"), Some("linked-etag"), Some("etag"), Some(1234), None,
            Some(99), Some("hash1"),
            Some(<<LinkFragment("next", Some(<<"https://example.org/next">>)),
                   LinkFragment("xet-auth", Some(ROUTE_1))>>),
            Some(ROUTE_2))
H_XET_ROUTE ==
    Headers(Some("c0ffee"), None, Some("etag"), None, Some(<<-1, 98765>>),
            Some(1), Some("hash2"), None, Some(ROUTE_2))
H_PLAIN ==
    Headers(Some("c0ffee"), None, Some("etag"), None, None, Some(99), None, None, None)
H_HASH_ONLY ==
    Headers(Some("c0ffee"), None, Some("etag"), Some(-1), None, Some(99),
            Some("hash3"), Some(<<LinkFragment("next", None)>>), None)
H_NO_COMMIT ==
    Headers(None, None, Some("etag"), Some(1234), None, None, Some("hash1"), None,
            Some(ROUTE_1))
H_NO_ETAG ==
    Headers(Some("c0ffee"), None, None, Some(1234), None, None, None, None, None)
H_NO_SIZE ==
    Headers(Some("c0ffee"), None, Some("etag"), None, Some(<<-1, -1>>), None, None,
            None, None)

H_ALL_SIZES ==
    Headers(Some("c0ffee"), None, Some("etag"), Some(1234), Some(<<-1, 98765>>),
            Some(99), None, None, None)
H_BAD_RANGE ==
    Headers(Some("c0ffee"), None, Some("etag"), None, Some(<<-1, -1>>), Some(99),
            None, None, None)
H_NO_SIZE_HEADERS ==
    Headers(Some("c0ffee"), None, Some("etag"), None, None, None, None, None, None)
H_XET_FOREIGN ==
    Headers(Some("c0ffee"), None, Some("etag"), Some(1234), None, None, Some("hash4"),
            Some(<<LinkFragment("xet-auth", None),
                   LinkFragment("xet-auth", Some(<<"https://cas.example.org", "/token">>))>>),
            Some(ROUTE_2))

HeaderProfiles ==
    {H_XET_LINK, H_XET_ROUTE, H_PLAIN, H_HASH_ONLY, H_NO_COMMIT, H_NO_ETAG, H_NO_SIZE,
     H_ALL_SIZES, H_BAD_RANGE, H_NO_SIZE_HEADERS, H_XET_FOREIGN}

MetaAnswer(sent, status, headers) ==
    [sent |-> sent, status |-> status, headers |-> headers]

MetaAnswers ==
    {MetaAnswer(FALSE, 0, NoHeaders)}
    \cup {MetaAnswer(TRUE, 200, h) : h \in HeaderProfiles}
    \cup {MetaAnswer(TRUE, 302, h) : h \in {H_PLAIN, H_XET_ROUTE, H_NO_COMMIT}}
    \cup {MetaAnswer(TRUE, st, NoHeaders) : st \in {401, 404, 500}}

\* The answers the download specification draws from: no response, a
\* response with CAS data, one without, one whose headers do not parse, an
\* error status
CoarseMetaAnswers ==
    {MetaAnswer(FALSE, 0, NoHeaders), MetaAnswer(TRUE, 200, H_XET_LINK),
     MetaAnswer(TRUE, 302, H_PLAIN), MetaAnswer(TRUE, 200, H_NO_SIZE),
     MetaAnswer(TRUE, 404, NoHeaders)}

\* Answers to a GET of file bytes (HTTP-direct and Legacy): transport
\* failure, error status, unreadable body, or the bytes
ByteAnswer(sent, status, body_ok) == [sent |-> sent, status |-> status, body_ok |-> body_ok]

ByteAnswers ==
    {ByteAnswer(FALSE, 0, FALSE), ByteAnswer(TRUE, 200, FALSE), ByteAnswer(TRUE, 200, TRUE)}
    \cup {ByteAnswer(TRUE, st, FALSE) : st \in {401, 404, 500}}

\* Outcomes of the local file system for one write of a destination
FsOutcomes == {"ok", "mkdir_err", "write_err"}

\* A byte answer together with the file system outcome of the write that
\* follows it; there is a write only after the bytes have arrived
ByteOutcomes ==
    {<<ans, fs>> \in ByteAnswers \X FsOutcomes :
        fs # "ok" => (ans.sent /\ is_success(ans.status) /\ ans.body_ok)}

IO_ERROR_TEXT == "Permission denied (os error 13)"

(***************************************************************************)
(* Initial state: a constructed client, an empty token cache               *)
(***************************************************************************)
NoRequest ==
    [repo |-> <<"">>, path |-> <<"">>, destination |-> "", revision |-> None,
     repo_info |-> [repo_type |-> "", full_name |-> ""], resolved_revision |-> <<"">>,
     endpoint |-> <<>>, token |-> <<>>]
\* attempted, failed and failure observe the loop: the indices whose
\* download_file was entered, the index of the first request that returned
\* Err, and that error
NoBatch ==
    [requests |-> <<>>, i |-> 0, results |-> <<>>, attempted |-> <<>>,
     failed |-> 0, failure |-> NoError]

(***************************************************************************)
(* The environment variables of the process and the knobs of the transfer  *)
(* engine (xet_download.rs, lib.rs)                                        *)
(***************************************************************************)
Knobs ==
    {"HF_XET_NUM_CONCURRENT_RANGE_GETS", "HF_XET_HIGH_PERFORMANCE",
     "HF_XET_MAX_CONCURRENT_DOWNLOADS", "HF_XET_INGESTION_BLOCK_SIZE"}

EnvNames ==
    Knobs \cup {"XET_NUM_CONCURRENT_RANGE_GETS", "XET_HIGH_PERFORMANCE",
                "XET_MAX_PARALLEL_FILES", "XET_CHUNK_SIZE_MB"}

\* A value that is not valid Unicode; every other value is its text
NOT_UNICODE == "<not unicode>"

NoEnv == [name \in EnvNames |-> None]

\* std::env::var(name).ok(): None for a variable that is not set or whose
\* value is not valid Unicode
env_var(e, name) ==
    IF IsSome(e[name]) /\ Unwrap(e[name]) # NOT_UNICODE THEN e[name] ELSE None

\* std::env::set_var
set_var(e, name, text) == [e EXCEPT ![name] = Some(text)]

\* The numbers the model writes and reads as text
NumberTexts ==
    <<[n |-> 0, text |-> "0"], [n |-> 1, text |-> "1"], [n |-> 2, text |-> "2"],
      [n |-> 4, text |-> "4"], [n |-> 7, text |-> "7"], [n |-> 32, text |-> "32"],
      [n |-> 64, text |-> "64"], [n |-> 256, text |-> "256"],
      [n |-> 4096, text |-> "4096"],
      [n |-> 2 * 1024 * 1024, text |-> "2097152"],
      [n |-> 8 * 1024 * 1024, text |-> "8388608"],
      [n |-> -5, text |-> "-5"]>>

\* ToString of an integer
to_string(n) ==
    LET i == CHOOSE k \in 1..Len(NumberTexts) : NumberTexts[k].n = n
    IN NumberTexts[i].text

\* str::parse::<i32>().ok()
parse_i32(text) ==
    IF \E k \in 1..Len(NumberTexts) : NumberTexts[k].text = text
    THEN LET i == CHOOSE k \in 1..Len(NumberTexts) : NumberTexts[k].text = text
         IN Some(NumberTexts[i].n)
    ELSE None

\* str::parse::<usize>().ok()
parse_usize(text) ==
    IF IsSome(parse_i32(text)) /\ Unwrap(parse_i32(text)) >= 0
    THEN parse_i32(text) ELSE None

\* impl Default for XetDownloadConfig
XetDownloadConfig_default(e) ==
    LET files_var == env_var(e, "XET_MAX_PARALLEL_FILES")
        mb_var == env_var(e, "XET_CHUNK_SIZE_MB")
        max_parallel_files ==
            IF IsSome(files_var) /\ IsSome(parse_usize(Unwrap(files_var)))
            THEN Unwrap(parse_usize(Unwrap(files_var))) ELSE 32
        chunk_size_bytes ==
            IF IsSome(mb_var) /\ IsSome(parse_usize(Unwrap(mb_var)))
            THEN Unwrap(parse_usize(Unwrap(mb_var))) * 1024 * 1024
            ELSE 8 * 1024 * 1024
    IN [chunk_size_bytes |-> chunk_size_bytes,
        max_parallel_files |-> max_parallel_files,
        parallel_failures |-> 4,
        max_retries |-> 3]

\* The first `if` of apply_performance_defaults and apply_download_config
default_range_gets(e) ==
    IF IsSome(env_var(e, "HF_XET_NUM_CONCURRENT_RANGE_GETS")) THEN e
    ELSE LET v == env_var(e, "XET_NUM_CONCURRENT_RANGE_GETS")
             default_concurrency ==
                 IF IsSome(v) /\ IsSome(parse_i32(Unwrap(v)))
                 THEN Unwrap(parse_i32(Unwrap(v))) ELSE 256
         IN set_var(e, "HF_XET_NUM_CONCURRENT_RANGE_GETS",
                    to_string(default_concurrency))

\* The second `if` of apply_performance_defaults and apply_download_config
default_high_performance(e) ==
    IF IsSome(env_var(e, "HF_XET_HIGH_PERFORMANCE")) THEN e
    ELSE IF env_var(e, "XET_HIGH_PERFORMANCE") = Some("0") THEN e
    ELSE set_var(e, "HF_XET_HIGH_PERFORMANCE", "1")

\* fn apply_performance_defaults
apply_performance_defaults(e) == default_high_performance(default_range_gets(e))

\* apply_download_config writing the range-get knob whether it is set or not
apply_download_config_always_set(e, config) ==
    LET e1 == set_var(e, "HF_XET_NUM_CONCURRENT_RANGE_GETS", to_string(256))
        e2 == default_high_performance(e1)
        e3 == IF IsSome(env_var(e2, "HF_XET_MAX_CONCURRENT_DOWNLOADS")) THEN e2
              ELSE set_var(e2, "HF_XET_MAX_CONCURRENT_DOWNLOADS",
                           to_string(config.max_parallel_files))
    IN IF IsSome(env_var(e3, "HF_XET_INGESTION_BLOCK_SIZE")) THEN e3
       ELSE set_var(e3, "HF_XET_INGESTION_BLOCK_SIZE",
                    to_string(config.chunk_size_bytes))

\* fn apply_download_config
apply_download_config(e, config) ==
    LET e2 == default_high_performance(default_range_gets(e))
        e3 == IF IsSome(env_var(e2, "HF_XET_MAX_CONCURRENT_DOWNLOADS")) THEN e2
              ELSE set_var(e2, "HF_XET_MAX_CONCURRENT_DOWNLOADS",
                           to_string(config.max_parallel_files))
    IN IF IsSome(env_var(e3, "HF_XET_INGESTION_BLOCK_SIZE")) THEN e3
       ELSE set_var(e3, "HF_XET_INGESTION_BLOCK_SIZE",
                    to_string(config.chunk_size_bytes))

\* The process before anything has run in it, but for its environment
InitProcess ==
    /\ now = 0
    /\ ticks = 0
    /\ started = 0
    /\ TOKEN_CACHE = <<>>
    /\ lock = 0
    /\ files = {}
    /\ pc = [t \in Threads |-> "idle"]
    /\ op = [t \in Threads |-> "none"]
    /\ req = [t \in Threads |-> NoRequest]
    /\ cand = [t \in Threads |-> 0]
    /\ last_error = [t \in Threads |-> None]
    /\ metadata = [t \in Threads |-> None]
    /\ route = [t \in Threads |-> <<>>]
    /\ jwt = [t \in Threads |-> None]
    /\ result = [t \in Threads |-> None]
    /\ batch = [t \in Threads |-> NoBatch]
    /\ hist = [t \in Threads |-> NoHist]

\* The state after XetClient::new() in a process that was started with none
\* of the variables set
Init == InitProcess /\ env = apply_performance_defaults(NoEnv)

(***************************************************************************)
(* Time passes                                                             *)
(***************************************************************************)
Tick(d) ==
    /\ ticks < MaxTicks
    /\ now' = now + d
    /\ ticks' = ticks + 1
    /\ UNCHANGED <<started, TOKEN_CACHE, lock, files, pc, op, req, cand,
                   last_error, metadata, route, jwt, result, batch, env, hist>>

(***************************************************************************)
(* Control flow of download_file and download_files_batch (lib.rs)         *)
(***************************************************************************)
\* after_metadata with a failure going on at the HTTP-direct fetch
after_metadata_err_to_http(res) ==
    IF res.ok
    THEN IF IsSome(Unwrap(res.val).xet_file_data) THEN "xet_prepare" ELSE "http_get"
    ELSE "http_get"

\* after_metadata with TryCas entered for every resolved metadata
after_metadata_always_xet(res) == IF res.ok THEN "xet_prepare" ELSE "legacy_get"

\* The match of download_file on the outcome of each step: the position the
\* call goes on at, "return_ok" standing for `return Ok(())`.
\*   Ok(metadata) with xet_file_data -> download_with_xet_async
\*   Ok(metadata) without            -> download_http_with_metadata
\*   Err(_)                          -> download_file_legacy
after_metadata(res) ==
    IF res.ok
    THEN IF IsSome(Unwrap(res.val).xet_file_data) THEN "xet_prepare" ELSE "http_get"
    ELSE "legacy_get"

\* after_xet with a failure trying the CAS strategy again
after_xet_retry(is_ok) == IF is_ok THEN "return_ok" ELSE "xet_prepare"

\* after_xet with a failure skipping the HTTP-direct fetch
after_xet_to_legacy(is_ok) == IF is_ok THEN "return_ok" ELSE "legacy_get"

\* download_with_xet_async(..).is_ok() -> return Ok(()), else fall to HTTP
after_xet(is_ok) == IF is_ok THEN "return_ok" ELSE "http_get"

\* after_http with Legacy entered whatever the outcome
after_http_always_legacy(is_ok) == "legacy_get"

\* download_http_with_metadata(..).is_ok() -> return Ok(()), else Legacy
after_http(is_ok) == IF is_ok THEN "return_ok" ELSE "legacy_get"

\* legacy_error without the last candidate's error
legacy_error_unknown(le) ==
    XetError("NetworkError",
             "Could not download file. Tried multiple endpoints. Last error: "
             \o "Unknown error")

\* The NetworkError of download_file_legacy after its last candidate
legacy_error(le) ==
    XetError("NetworkError",
             "Could not download file. Tried multiple endpoints. Last error: "
             \o (IF IsSome(le) THEN Unwrap(le) ELSE "Unknown error"))

\* batch_step with the loop going on after a failure
batch_step_always_push(res) == "push"

\* The match of download_files_batch on a request's Result
batch_step(res) == IF res.ok THEN "push" ELSE "return_err"

\* batch_error naming the destination in place of the path
batch_error_destination(request, e) ==
    XetError("OperationFailed",
             "Failed to download " \o request.destination \o ": " \o Display(e))

\* The OperationFailed of download_files_batch
batch_error(request, e) ==
    XetError("OperationFailed",
             "Failed to download " \o Join(request.path, "/") \o ": " \o Display(e))

\* content_after_metadata with the transfer engine tried for CAS metadata
content_after_metadata_with_cas(res) ==
    IF res.ok
    THEN IF IsSome(Unwrap(res.val).xet_file_data) THEN "xet_prepare" ELSE "content_http"
    ELSE "content_legacy"

\* The `if let Ok(metadata)` of get_file_content on the outcome of
\* fetch_file_metadata: the position the call goes on at.
\*   Ok(metadata) -> http_get_bytes(&metadata.download_url)
\*   Err(_)       -> get_file_content_legacy
content_after_metadata(res) == IF res.ok THEN "content_http" ELSE "content_legacy"

\* The running call goes on at position p with the given locals.
Continue(t, p, c, le, m, ro, j, h) ==
    /\ pc' = [pc EXCEPT ![t] = p]
    /\ cand' = [cand EXCEPT ![t] = c]
    /\ last_error' = [last_error EXCEPT ![t] = le]
    /\ metadata' = [metadata EXCEPT ![t] = m]
    /\ route' = [route EXCEPT ![t] = ro]
    /\ jwt' = [jwt EXCEPT ![t] = j]
    /\ hist' = [hist EXCEPT ![t] = h]

\* download_file returns res; o is the public operation that called it and
\* b the batch record of the thread. A direct caller receives res. In
\* download_files_batch, Ok pushes the request's destination and the loop
\* goes on, Err returns OperationFailed at once.
DlReturn(t, o, res, h, b) ==
    /\ cand' = [cand EXCEPT ![t] = 0]
    /\ last_error' = [last_error EXCEPT ![t] = None]
    /\ metadata' = [metadata EXCEPT ![t] = None]
    /\ route' = [route EXCEPT ![t] = <<>>]
    /\ jwt' = [jwt EXCEPT ![t] = None]
    /\ req' = req
    /\ hist' = [hist EXCEPT ![t] = h]
    /\ IF o = "download_file"
       THEN /\ pc' = [pc EXCEPT ![t] = "idle"]
            /\ result' = [result EXCEPT ![t] = Some(res)]
            /\ batch' = [batch EXCEPT ![t] = b]
       ELSE LET request == b.requests[b.i]
                seen == IF ~res.ok /\ b.failed = 0
                        THEN [b EXCEPT !.failed = b.i, !.failure = res.err]
                        ELSE b
            IN IF batch_step(res) = "push"
               THEN /\ pc' = [pc EXCEPT ![t] = "batch_loop"]
                    /\ result' = result
                    /\ batch' = [batch EXCEPT ![t] =
                                   [seen EXCEPT !.results = Append(@, request.destination),
                                                !.i = @ + 1]]
               ELSE /\ pc' = [pc EXCEPT ![t] = "idle"]
                    /\ result' = [result EXCEPT ![t] =
                                    Some(Err(batch_error(request, res.err)))]
                    /\ batch' = [batch EXCEPT ![t] = seen]

\* The call goes on at p, or returns Ok(()) when p is "return_ok".
Goto(t, p, h) ==
    IF p = "return_ok"
    THEN DlReturn(t, op[t], Ok(<<>>), h, batch[t])
    ELSE /\ Continue(t, p, IF p = "legacy_get" THEN 1 ELSE 0, None,
                     IF p = "legacy_get" THEN None ELSE metadata[t], <<>>, None, h)
         /\ UNCHANGED <<req, result, batch>>

(***************************************************************************)
(* get_cached_cas_jwt (xet_metadata.rs)                                    *)
(***************************************************************************)
\* A caller invokes get_cached_cas_jwt(client, r, token) directly.
CallGetCachedCasJwt(t, r) ==
    /\ pc[t] = "idle"
    /\ started < MaxCalls
    /\ started' = started + 1
    /\ op' = [op EXCEPT ![t] = "get_cached_cas_jwt"]
    /\ route' = [route EXCEPT ![t] = r]
    /\ pc' = [pc EXCEPT ![t] = "cas_lock_get"]
    /\ jwt' = [jwt EXCEPT ![t] = None]
    /\ result' = [result EXCEPT ![t] = None]
    /\ hist' = [hist EXCEPT ![t] = NoHist]
    /\ UNCHANGED <<now, ticks, env, TOKEN_CACHE, lock, files, req, cand,
                   last_error, metadata, batch>>

\* The return of get_cached_cas_jwt to whoever awaits it: the direct caller
\* gets the Result; download_with_xet_async goes on to the transfer on Ok
\* and returns the error on Err, upon which download_file moves on.
CasReturn(t, res, h) ==
    IF op[t] = "get_cached_cas_jwt"
    THEN /\ pc' = [pc EXCEPT ![t] = "idle"]
         /\ result' = [result EXCEPT ![t] = Some(res)]
         /\ jwt' = [jwt EXCEPT ![t] = None]
         /\ hist' = [hist EXCEPT ![t] = h]
         /\ UNCHANGED <<req, cand, last_error, metadata, route, batch>>
    ELSE IF res.ok
    THEN /\ pc' = [pc EXCEPT ![t] = "xet_execute"]
         /\ jwt' = [jwt EXCEPT ![t] = res.val]
         /\ hist' = [hist EXCEPT ![t] = h]
         /\ UNCHANGED <<req, cand, last_error, metadata, route, result, batch>>
    ELSE Goto(t, after_xet(FALSE), h)

\* get_cached_token: TOKEN_CACHE.lock()
GetCachedTokenLock(t) ==
    /\ pc[t] = "cas_lock_get"
    /\ lock = 0
    /\ lock' = t
    /\ pc' = [pc EXCEPT ![t] = "cas_get"]
    /\ UNCHANGED <<now, ticks, env, started, TOKEN_CACHE, files, op, req, cand,
                   last_error, metadata, route, jwt, result, batch, hist>>

\* get_cached_token: cache.get(key).cloned(), the guard is dropped; then
\* is_valid decides between returning the cached value and sending the
\* refresh request.
GetCachedToken(t) ==
    /\ pc[t] = "cas_get"
    /\ lock = t
    /\ lock' = lock_after_lookup(t)
    /\ LET cached == get_cached_token(TOKEN_CACHE, route[t])
           h == [hist[t] EXCEPT !.lookups = @ + 1]
       IN IF IsSome(cached) /\ is_valid(Unwrap(cached), now)
          THEN CasReturn(t, Ok(Some(Unwrap(cached).value)),
                         [h EXCEPT !.hit = TRUE])
          ELSE /\ pc' = [pc EXCEPT ![t] = "cas_await"]
               /\ hist' = [hist EXCEPT ![t] = [h EXCEPT !.refresh_reqs = @ + 1]]
               /\ UNCHANGED <<req, cand, last_error, metadata, route, jwt,
                              result, batch>>
    /\ UNCHANGED <<now, ticks, env, started, TOKEN_CACHE, files, op>>

\* request.send().await ... error_for_status() and the three headers
CasRefreshAnswer(t, ans) ==
    /\ pc[t] = "cas_await"
    /\ LET res == cas_jwt_from_answer(ans, route[t])
       IN IF res.ok
          THEN /\ pc' = [pc EXCEPT ![t] = "cas_lock_insert"]
               /\ jwt' = [jwt EXCEPT ![t] = res.val]
               /\ UNCHANGED <<req, cand, last_error, metadata, route, result,
                              batch, hist>>
          ELSE CasReturn(t, res, hist[t])
    /\ UNCHANGED <<now, ticks, env, started, TOKEN_CACHE, lock, files, op>>

\* cache_token: TOKEN_CACHE.lock()
CacheTokenLock(t) ==
    /\ pc[t] = "cas_lock_insert"
    /\ lock = 0
    /\ lock' = t
    /\ pc' = [pc EXCEPT ![t] = "cas_insert"]
    /\ UNCHANGED <<now, ticks, env, started, TOKEN_CACHE, files, op, req, cand,
                   last_error, metadata, route, jwt, result, batch, hist>>

\* cache_token: compute_cache_expiry and cache.insert, the guard is dropped;
\* get_cached_cas_jwt returns Ok(cas_jwt)
CacheToken(t) ==
    /\ pc[t] = "cas_insert"
    /\ lock = t
    /\ lock' = 0
    /\ TOKEN_CACHE' = cache_token(TOKEN_CACHE, route[t], Unwrap(jwt[t]), now)
    /\ CasReturn(t, Ok(jwt[t]), [hist[t] EXCEPT !.inserts = @ + 1])
    /\ UNCHANGED <<now, ticks, env, started, files, op>>

(***************************************************************************)
(* download_file and download_files_batch (lib.rs)                         *)
(***************************************************************************)
\* validate_download without the check of destination
validate_download_no_destination(r, accepted) ==
    IF is_empty(r.repo)
    THEN Err(XetError("InvalidInput", "Repository cannot be empty"))
    ELSE IF is_empty(r.path)
    THEN Err(XetError("InvalidInput", "Path cannot be empty"))
    ELSE parse_repo(r.repo, accepted)

\* The checks at the head of download_file and parse_repo
validate_download(r, accepted) ==
    IF is_empty(r.repo)
    THEN Err(XetError("InvalidInput", "Repository cannot be empty"))
    ELSE IF is_empty(r.path)
    THEN Err(XetError("InvalidInput", "Path cannot be empty"))
    ELSE IF r.destination = ""
    THEN Err(XetError("InvalidInput", "Destination cannot be empty"))
    ELSE parse_repo(r.repo, accepted)

\* download_file up to the first request of fetch_file_metadata: the input
\* checks, parse_repo, and the construction of the metadata client, whose
\* failure makes fetch_file_metadata return Err.
EnterDownloadFile(t, o, r, accepted, client_ok, b) ==
    LET checked == validate_download(r, accepted)
        client_err == Err(XetError("NetworkError", "Failed to create metadata client"))
        h == [NoHist EXCEPT !.attempts = <<"ResolveMetadata">>,
                            !.resolved = IF client_ok THEN "" ELSE "failed"]
    IN IF ~checked.ok
       THEN DlReturn(t, o, Err(checked.err), NoHist, b)
       ELSE /\ req' = [req EXCEPT ![t] =
                   [repo |-> r.repo, path |-> r.path, destination |-> r.destination,
                    revision |-> r.revision, repo_info |-> Unwrap(checked.val),
                    resolved_revision |-> IF IsSome(r.revision) THEN Unwrap(r.revision)
                                          ELSE <<"main">>,
                    endpoint |-> ENDPOINT, token |-> None]]
            /\ IF client_ok
               THEN Continue(t, "meta_head", 1, None, None, <<>>, None, h)
               ELSE Continue(t, after_metadata(client_err), 1, None, None, <<>>, None, h)
            /\ batch' = [batch EXCEPT ![t] = b]
            /\ result' = [result EXCEPT ![t] = None]

CallDownloadFile(t, r, accepted, client_ok) ==
    /\ pc[t] = "idle"
    /\ started < MaxOps
    /\ started' = started + 1
    /\ op' = [op EXCEPT ![t] = "download_file"]
    /\ EnterDownloadFile(t, "download_file", r, accepted, client_ok, NoBatch)
    /\ UNCHANGED <<now, ticks, env, TOKEN_CACHE, lock, files>>

CallDownloadFilesBatch(t, requests) ==
    /\ pc[t] = "idle"
    /\ started < MaxOps
    /\ started' = started + 1
    /\ op' = [op EXCEPT ![t] = "download_files_batch"]
    /\ batch' = [batch EXCEPT ![t] = [NoBatch EXCEPT !.requests = requests, !.i = 1]]
    /\ pc' = [pc EXCEPT ![t] = "batch_loop"]
    /\ result' = [result EXCEPT ![t] = None]
    /\ hist' = [hist EXCEPT ![t] = NoHist]
    /\ UNCHANGED <<now, ticks, env, TOKEN_CACHE, lock, files, req, cand,
                   last_error, metadata, route, jwt>>

\* One turn of `for request in requests`: the next request's download_file
\* is entered, or the list is exhausted and Ok(results) is returned.
BatchLoop(t, accepted, client_ok) ==
    /\ pc[t] = "batch_loop"
    /\ LET b == batch[t] IN
       IF b.i > Len(b.requests)
       THEN /\ pc' = [pc EXCEPT ![t] = "idle"]
            /\ result' = [result EXCEPT ![t] = Some(Ok(b.results))]
            /\ UNCHANGED <<batch, req, cand, last_error, metadata, route, jwt, hist>>
       ELSE EnterDownloadFile(t, op[t], b.requests[b.i], accepted, client_ok,
                              [b EXCEPT !.attempted = Append(@, b.i)])
    /\ UNCHANGED <<now, ticks, env, started, TOKEN_CACHE, lock, files, op>>

\* parse_attempted with a redirect handled as an unexpected status
parse_attempted_success_only(status) == is_success(status)

\* `status.is_success() || status.is_redirection()`: the headers of the
\* response are parsed
parse_attempted(status) == is_success(status) \/ is_redirection(status)

\* candidates_left with the loop ending at the first failing candidate
candidates_left_none(c, n) == FALSE

\* `for url in candidate_urls`, after candidate c of n
candidates_left(c, n) == c < n

\* record_error with the first recorded error kept
record_error_keep_first(old, new) == IF IsSome(old) THEN old ELSE new

\* `last_error = Some(..)`: the assignment at a failing attempt
record_error(old, new) == new

\* The candidate URLs of the running fetch_file_metadata
MetadataUrls(t) ==
    candidate_urls(req[t].endpoint, repo_type_plural(req[t].repo_info.repo_type),
                   req[t].repo_info.full_name, req[t].path, req[t].resolved_revision)

\* A request of the candidate loop and its answer
Probe(verb, c, ans) == [verb |-> verb, cand |-> c, answer |-> ans]

\* The extension of the last segment of the paths the model uses
extension(path) ==
    CASE path[Len(path)] = "f.txt" -> "txt"
      [] path[Len(path)] = "f.bin" -> "bin"
      [] path[Len(path)] = "F.BIN" -> "BIN"
      [] path[Len(path)] = "f.Pt" -> "Pt"
      [] OTHER -> ""

\* str::to_ascii_lowercase on the extensions of the model
to_ascii_lowercase(ext) ==
    CASE ext = "BIN" -> "bin"
      [] ext = "Pt" -> "pt"
      [] OTHER -> ext

BinaryExtensions ==
    {"safetensors", "bin", "pt", "onnx", "tflite", "tar", "gz", "zip", "xz", "zst",
     "bz2", "npy", "npz", "h5", "ckpt", "pth"}

\* should_try_pointer_detection comparing the extension as it is written
should_try_pointer_detection_case_sensitive(path) ==
    extension(path) \notin BinaryExtensions

\* fn should_try_pointer_detection
should_try_pointer_detection(path) ==
    to_ascii_lowercase(extension(path)) \notin BinaryExtensions

XetFileInfo(hash, file_size) == [hash |-> hash, file_size |-> file_size]

\* The `for line in lines` of get_file_info: oid and size after the lines,
\* a line being its keyword ("oid" for a line that starts with "oid ",
\* "size" for one that starts with "size "), the trimmed text after it, and
\* that text as a number, -1 when it is not an unsigned integer
RECURSIVE scan_pointer_lines(_, _, _)
scan_pointer_lines(lines, oid, size) ==
    IF lines = <<>> THEN [oid |-> oid, size |-> size]
    ELSE IF Head(lines).key = "oid"
    THEN scan_pointer_lines(Tail(lines), Some(Head(lines).text), size)
    ELSE IF Head(lines).key = "size"
    THEN scan_pointer_lines(Tail(lines), oid, parse_u64(Head(lines).number))
    ELSE scan_pointer_lines(Tail(lines), oid, size)

\* parse_pointer with the size of the pointer ignored
parse_pointer_size_zero(body) ==
    IF ~body.utf8 THEN None
    ELSE IF IsSome(body.json) THEN body.json
    ELSE LET found == scan_pointer_lines(body.lines, None, None)
         IN IF IsSome(found.oid) /\ IsSome(found.size)
            THEN Some(XetFileInfo(Unwrap(found.oid), 0))
            ELSE None

\* The end of get_file_info: the content as UTF-8, as JSON XetFileInfo, as
\* LFS pointer lines; body is the content with what the three parsers make
\* of it
parse_pointer(body) ==
    IF ~body.utf8 THEN None
    ELSE IF IsSome(body.json) THEN body.json
    ELSE LET found == scan_pointer_lines(body.lines, None, None)
         IN IF IsSome(found.oid) /\ IsSome(found.size)
            THEN Some(XetFileInfo(Unwrap(found.oid), Unwrap(found.size)))
            ELSE None

\* get_file_info returns res
InfoReturn(t, res, h) ==
    /\ Continue(t, "idle", 0, None, None, <<>>, None, h)
    /\ result' = [result EXCEPT ![t] = Some(res)]
    /\ op' = [op EXCEPT ![t] = "get_file_info"]

\* The match of get_file_info on the outcome of fetch_file_metadata and
\* what follows it:
\*   Ok(metadata) with xet_file_data -> return Ok(Some(info))
\*   path with a binary extension    -> return Ok(None)
\*   get_file_content with an empty path -> its InvalidInput, by `?`
\*   else -> get_file_content goes on
info_after_metadata(res, path) ==
    IF res.ok /\ IsSome(Unwrap(res.val).xet_file_data) THEN "xet_info"
    ELSE IF ~should_try_pointer_detection(path) THEN "none"
    ELSE IF is_empty(path) THEN "path_empty"
    ELSE "get_file_content"

\* get_file_info after fetch_file_metadata has returned res; client_ok says
\* whether the metadata client of the get_file_content that follows can be
\* built
InfoAfterMetadata(t, res, path, client_ok, h) ==
    LET next == info_after_metadata(res, path) IN
    IF next = "xet_info"
    THEN InfoReturn(t, Ok(Some(XetFileInfo(Unwrap(Unwrap(res.val).xet_file_data).file_hash,
                                           Unwrap(res.val).size))), h)
    ELSE IF next = "none" THEN InfoReturn(t, Ok(None), h)
    ELSE IF next = "path_empty"
    THEN InfoReturn(t, Err(XetError("InvalidInput", "Path cannot be empty")), h)
    ELSE /\ Continue(t, IF client_ok THEN "meta_head" ELSE "content_legacy", 1, None,
                     None, <<>>, None,
                     [h EXCEPT !.attempts = @ \o <<"PointerFile", "ResolveMetadata">>])
         /\ op' = [op EXCEPT ![t] = "get_file_info.get_file_content"]
         /\ result' = result

\* fetch_file_metadata returns res: to its caller when it was called
\* directly, to get_file_info, to get_file_content, which goes on by
\* content_after_metadata, or to download_file, which goes on by
\* after_metadata.
AfterMetadata(t, res, h) ==
    LET p == after_metadata(res)
        seen == [h EXCEPT !.resolved =
                    IF ~res.ok THEN "failed"
                    ELSE IF IsSome(Unwrap(res.val).xet_file_data) THEN "xet"
                    ELSE "plain"]
    IN IF op[t] = "fetch_file_metadata"
       THEN /\ Continue(t, "idle", cand[t], None, IF res.ok THEN res.val ELSE None,
                        <<>>, None, seen)
            /\ result' = [result EXCEPT ![t] = Some(res)]
            /\ op' = op
       ELSE IF op[t] = "get_file_info"
       THEN InfoAfterMetadata(t, res, req[t].path, TRUE, [seen EXCEPT !.response = None])
       ELSE IF op[t] \in {"get_file_content", "get_file_info.get_file_content"}
       THEN /\ Continue(t, content_after_metadata(res),
                        IF content_after_metadata(res) = "content_legacy" THEN 1 ELSE 0,
                        None, IF res.ok THEN res.val ELSE None, <<>>, None,
                        [seen EXCEPT !.response = None])
            /\ UNCHANGED <<result, op>>
       ELSE /\ Continue(t, p, IF p = "legacy_get" THEN 1 ELSE 0, None,
                        IF res.ok THEN res.val ELSE None, <<>>, None,
                        [seen EXCEPT !.response = None])
            /\ UNCHANGED <<result, op>>

\* An attempt on the current candidate has failed with error text e: the
\* loop moves on, or is exhausted and fetch_file_metadata returns Err.
NextCandidate(t, e, h) ==
    LET le == record_error(last_error[t], Some(e))
    IN IF candidates_left(cand[t], Len(MetadataUrls(t)))
       THEN /\ Continue(t, "meta_head", cand[t] + 1, le, None, <<>>, None, h)
            /\ UNCHANGED <<result, op>>
       ELSE AfterMetadata(t,
                Err(XetError("NetworkError", "Failed to retrieve HEAD metadata: "
                        \o (IF IsSome(le) THEN Unwrap(le) ELSE "unknown error"))),
                h)

\* What the loop body does with a response that has a status; verb is "HEAD"
\* or "GET".
OnMetaStatus(t, ans, verb, h) ==
    LET url == MetadataUrls(t)[cand[t]]
        parsed == parse_metadata_from_response(ans.headers, url,
                                               trim_end_slashes(req[t].endpoint))
    IN IF parse_attempted(ans.status)
       THEN IF parsed.ok
            THEN AfterMetadata(t, parsed, h)
            ELSE NextCandidate(t, Display(parsed.err), h)
       ELSE IF is_client_error(ans.status)
       THEN NextCandidate(t, verb \o " request failed with status: "
                             \o StatusText(ans.status), h)
       ELSE NextCandidate(t, verb \o " request received unexpected status: "
                             \o StatusText(ans.status), h)

\* head_answered taking a client error status for a failed send
head_answered_unless_client_error(ans) == ans.sent /\ ~is_client_error(ans.status)

\* `match head_request.send().await`: Ok(resp) for every response, whatever
\* its status; Err falls through to the GET
head_answered(ans) == ans.sent

\* head_request.send().await
MetaHead(t, ans) ==
    /\ pc[t] = "meta_head"
    /\ LET h == [hist[t] EXCEPT !.heads = @ + 1,
                                !.response = Some(Probe("HEAD", cand[t], ans))]
       IN IF head_answered(ans)
          THEN OnMetaStatus(t, ans, "HEAD", h)
          ELSE /\ Continue(t, "meta_get", cand[t], last_error[t], None, <<>>, None, h)
               /\ UNCHANGED <<result, op>>
    /\ UNCHANGED <<now, ticks, env, started, TOKEN_CACHE, lock, files, req, batch>>

\* get_request.send().await, after a HEAD that produced no response
MetaGet(t, ans) ==
    /\ pc[t] = "meta_get"
    /\ LET h == [hist[t] EXCEPT !.gets = @ + 1,
                                !.response = Some(Probe("GET", cand[t], ans))]
           url == MetadataUrls(t)[cand[t]]
       IN IF ans.sent
          THEN OnMetaStatus(t, ans, "GET", h)
          ELSE NextCandidate(t, "GET request failed: " \o TransportErrorText(url), h)
    /\ UNCHANGED <<now, ticks, env, started, TOKEN_CACHE, lock, files, req, batch>>

\* download_with_xet_async: prepare_destination, then get_cached_cas_jwt
XetPrepare(t, mkdir_ok) ==
    /\ pc[t] = "xet_prepare"
    /\ LET h == [hist[t] EXCEPT !.attempts = Append(@, "TryCas")] IN
       IF mkdir_ok
       THEN /\ Continue(t, "cas_lock_get", 0, None, metadata[t],
                        Unwrap(Unwrap(metadata[t]).xet_file_data).refresh_route, None, h)
            /\ UNCHANGED <<req, result, batch>>
       ELSE Goto(t, after_xet(FALSE), h)
    /\ UNCHANGED <<now, ticks, env, started, TOKEN_CACHE, lock, files, op>>

\* download_with_xet_async making its plan without the expected size
xet_plan_without_size(xet_data, expected_size, destination) ==
    <<[file_info |-> [hash |-> xet_data.file_hash, file_size |-> 0],
       destination |-> destination]>>

\* download_with_xet_async: XetFileInfo::new(xet_data.file_hash.clone(),
\* expected_size) and vec![XetDownloadPlan::new(file_info, destination)]
xet_plan(xet_data, expected_size, destination) ==
    <<[file_info |-> [hash |-> xet_data.file_hash, file_size |-> expected_size],
       destination |-> destination]>>

\* download_with_xet_async: execute_xet_plan with the single-entry plan and
\* the token get_cached_cas_jwt returned; download_with_plan hands the
\* plan's entries and the token to the transfer engine. engine_ok is the
\* outcome of the external transfer engine, which writes the destination
XetExecute(t, engine_ok) ==
    /\ pc[t] = "xet_execute"
    /\ LET m == Unwrap(metadata[t])
           plan == xet_plan(Unwrap(m.xet_file_data), m.size, req[t].destination)
           h == [hist[t] EXCEPT !.transfers = @ + 1,
                                !.engine_call = Some([plan |-> plan,
                                                      jwt |-> Unwrap(jwt[t])])]
       IN
       IF engine_ok
       THEN /\ files' = files \cup {req[t].destination}
            /\ Goto(t, after_xet(TRUE), [h EXCEPT !.succeeded = Append(@, "TryCas")])
       ELSE /\ files' = files
            /\ Goto(t, after_xet(FALSE), h)
    /\ env' = apply_download_config(env, XetDownloadConfig_default(env))
    /\ UNCHANGED <<now, ticks, started, TOKEN_CACHE, lock, op>>

\* download_http_with_metadata: http_get_bytes(metadata.download_url), then
\* write_bytes
HttpGet(t, ans, fs) ==
    /\ pc[t] = "http_get"
    /\ LET h == [hist[t] EXCEPT !.attempts = Append(@, "TryHttp"),
                                !.http_gets = @ + 1,
                                !.http_url = Some(Unwrap(metadata[t]).download_url)]
       IN IF ans.sent /\ is_success(ans.status) /\ ans.body_ok /\ fs = "ok"
          THEN /\ files' = files \cup {req[t].destination}
               /\ Goto(t, after_http(TRUE), [h EXCEPT !.succeeded = Append(@, "TryHttp")])
          ELSE /\ files' = files
               /\ Goto(t, after_http(FALSE), h)
    /\ UNCHANGED <<now, ticks, env, started, TOKEN_CACHE, lock, op>>

\* download_file_legacy: one turn of `for url in urls_to_try`, and the
\* NetworkError after the last turn
LegacyGet(t, ans, fs) ==
    /\ pc[t] = "legacy_get"
    /\ LET urls == build_resolve_urls(ENDPOINT, req[t].repo_info, req[t].path,
                                      req[t].resolved_revision)
           url == urls[cand[t]]
           h == [hist[t] EXCEPT
                   !.attempts = IF cand[t] = 1 THEN Append(@, "Legacy") ELSE @,
                   !.legacy_gets = @ + 1]
           le == IF ~ans.sent
                 THEN Some("Request error: " \o TransportErrorText(url))
                 ELSE IF ~is_success(ans.status)
                 THEN Some("HTTP error: " \o StatusErrorText(ans.status, url))
                 ELSE Some("Failed to read response body: " \o BodyErrorText(url))
       IN IF ans.sent /\ is_success(ans.status) /\ ans.body_ok
          THEN IF fs = "ok"
               THEN /\ files' = files \cup {req[t].destination}
                    /\ DlReturn(t, op[t], Ok(<<>>),
                                [h EXCEPT !.succeeded = Append(@, "Legacy")], batch[t])
               ELSE /\ files' = files
                    /\ DlReturn(t, op[t],
                          Err(XetError("IoError",
                              (IF fs = "mkdir_err" THEN "Failed to create directory: "
                               ELSE "Failed to write file: ") \o IO_ERROR_TEXT)),
                          h, batch[t])
          ELSE /\ files' = files
               /\ IF cand[t] < Len(urls)
                  THEN /\ Continue(t, "legacy_get", cand[t] + 1, le, None, <<>>, None, h)
                       /\ UNCHANGED <<req, result, batch>>
                  ELSE DlReturn(t, op[t], Err(legacy_error(le)), h, batch[t])
    /\ UNCHANGED <<now, ticks, env, started, TOKEN_CACHE, lock, op>>

(***************************************************************************)
(* Specification of the downloads: one caller thread issuing download_file *)
(* and download_files_batch calls, the servers, the transfer engine and    *)
(* the file system answering in every way they can                         *)
(***************************************************************************)
Request(repo, path, destination, revision) ==
    [repo |-> repo, path |-> path, destination |-> destination, revision |-> revision]

DirectRequests ==
    {Request(<<"Datasets", "o", "r">>, <<"dir", "f.txt">>, "out/f.txt", Some(<<"v1">>)),
     Request(<<"">>, <<"f.bin">>, "out/f.bin", None),
     Request(<<"o">>, <<"f.bin">>, "out/f.bin", None),
     Request(<<"o", "r">>, <<"">>, "out/f.bin", None),
     Request(<<"o", "r">>, <<"f.bin">>, "", None)}

Digits == <<"1", "2", "3", "4", "5", "6", "7", "8", "9">>

\* The i-th request of a batch: its path and destination carry its index
BatchRequest(i) ==
    Request(<<"o", "r">>, <<"f" \o Digits[i]>>, "d" \o Digits[i], None)

Batches ==
    {[i \in 1..n |-> BatchRequest(i)] : n \in 0..MaxBatch}
    \cup {[i \in 1..n |-> IF i = 2 THEN [BatchRequest(i) EXCEPT !.path = <<"">>]
                          ELSE BatchRequest(i)] : n \in 2..MaxBatch}

Next ==
    \/ \E r \in DirectRequests, accepted \in BOOLEAN, client_ok \in BOOLEAN :
          CallDownloadFile(1, r, accepted, client_ok)
    \/ \E requests \in Batches : CallDownloadFilesBatch(1, requests)
    \/ \E accepted \in BOOLEAN, client_ok \in BOOLEAN : BatchLoop(1, accepted, client_ok)
    \/ \E ans \in CoarseMetaAnswers : MetaHead(1, ans)
    \/ \E ans \in CoarseMetaAnswers : MetaGet(1, ans)
    \/ \E mkdir_ok \in BOOLEAN : XetPrepare(1, mkdir_ok)
    \/ GetCachedTokenLock(1)
    \/ GetCachedToken(1)
    \/ \E ans \in RefreshAnswers(route[1], Serials, CoarseExps(now)) :
          CasRefreshAnswer(1, ans)
    \/ CacheTokenLock(1)
    \/ CacheToken(1)
    \/ \E engine_ok \in BOOLEAN : XetExecute(1, engine_ok)
    \/ \E o \in ByteOutcomes : HttpGet(1, o[1], o[2])
    \/ \E o \in ByteOutcomes : LegacyGet(1, o[1], o[2])

Spec == Init /\ [][Next]_vars

(***************************************************************************)
(* Properties of download_file and download_files_batch, checked under     *)
(* Spec                                                                    *)
(***************************************************************************)
\* C1: in every download_file call the strategies are attempted in the
\* fixed order ResolveMetadata, TryCas, TryHttp, Legacy, each at most once
\* (the transfer engine and the HTTP-direct fetch run at most once, Legacy
\* makes at most one request per candidate), and once one of the download
\* strategies has succeeded the call has returned Ok with that strategy as
\* the last one attempted.
C1_StrategyOrder ==
    LET a == hist[1].attempts
        s == hist[1].succeeded
        order == <<"ResolveMetadata", "TryCas", "TryHttp", "Legacy">>
        rank(x) == CHOOSE i \in 1..Len(order) : order[i] = x
    IN /\ \A i \in 1..Len(a) : \E k \in 1..Len(order) : a[i] = order[k]
       /\ \A i, j \in 1..Len(a) : i < j => rank(a[i]) < rank(a[j])
       /\ a # <<>> => a[1] = "ResolveMetadata"
       /\ hist[1].transfers <= 1
       /\ hist[1].http_gets <= 1
       /\ hist[1].legacy_gets <= Len(build_resolve_urls(ENDPOINT, req[1].repo_info,
                                         req[1].path, req[1].resolved_revision))
       /\ s # <<>> =>
            /\ Len(s) = 1
            /\ s[1] = a[Len(a)]
            /\ pc[1] \in {"idle", "batch_loop"}
            /\ op[1] = "download_file" => result[1] = Some(Ok(<<>>))

\* A call in which all four strategies were attempted and Legacy succeeded
C1_Witness ==
    /\ hist[1].attempts = <<"ResolveMetadata", "TryCas", "TryHttp", "Legacy">>
    /\ hist[1].succeeded = <<"Legacy">>
    /\ pc[1] = "idle"

\* C2: when metadata resolution fails, download_file goes directly to
\* Legacy: the token cache is neither read, refreshed nor written, the
\* transfer engine and the HTTP-direct fetch are not run, and an error is
\* returned only after Legacy was attempted.
C2_ResolveFailureGoesToLegacy ==
    hist[1].resolved = "failed" =>
        /\ pc[1] \in {"legacy_get", "idle", "batch_loop"}
        /\ hist[1].attempts \in {<<"ResolveMetadata">>, <<"ResolveMetadata", "Legacy">>}
        /\ hist[1].attempts = <<"ResolveMetadata">> =>
              pc[1] = "legacy_get" /\ cand[1] = 1
        /\ hist[1].lookups = 0
        /\ hist[1].refresh_reqs = 0
        /\ hist[1].inserts = 0
        /\ hist[1].transfers = 0
        /\ hist[1].http_gets = 0
        /\ (pc[1] = "idle" /\ IsSome(result[1]) /\ ~Unwrap(result[1]).ok) =>
              hist[1].legacy_gets >= 1

\* Resolution failed after requests to every candidate, and the call
\* returned Ok through Legacy
C2_Witness ==
    /\ hist[1].resolved = "failed"
    /\ hist[1].heads >= 1
    /\ hist[1].succeeded = <<"Legacy">>
    /\ op[1] = "download_file"
    /\ result[1] = Some(Ok(<<>>))

\* C3: when the resolved metadata carries xet_file_data, TryCas is the next
\* strategy; a token fetch followed by a successful transfer ends the call
\* with Ok; the token is looked up and requested at most once and the
\* transfer run at most once; a failure of either never returns from the
\* call, the next thing done is the HTTP-direct fetch of
\* metadata.download_url.
C3_XetFallsThroughToHttp ==
    hist[1].resolved = "xet" =>
        LET a == hist[1].attempts
            urls == candidate_urls(ENDPOINT, repo_type_plural(req[1].repo_info.repo_type),
                                   req[1].repo_info.full_name, req[1].path,
                                   req[1].resolved_revision)
        IN /\ Len(a) = 1 => pc[1] = "xet_prepare"
           /\ Len(a) >= 2 => a[2] = "TryCas"
           /\ hist[1].lookups <= 1
           /\ hist[1].refresh_reqs <= 1
           /\ hist[1].transfers <= 1
           /\ hist[1].succeeded = <<"TryCas">> =>
                 /\ a = <<"ResolveMetadata", "TryCas">>
                 /\ hist[1].transfers = 1
                 /\ req[1].destination \in files
                 /\ pc[1] \in {"idle", "batch_loop"}
                 /\ op[1] = "download_file" => result[1] = Some(Ok(<<>>))
           /\ (Len(a) = 2 /\ hist[1].succeeded = <<>>) =>
                 pc[1] \in {"cas_lock_get", "cas_get", "cas_await", "cas_lock_insert",
                            "cas_insert", "xet_execute", "http_get"}
           /\ Len(a) >= 3 =>
                 /\ a[3] = "TryHttp"
                 /\ hist[1].http_gets = 1
                 /\ IsSome(hist[1].http_url)
                 /\ \E k \in 1..Len(urls) : urls[k] = Unwrap(hist[1].http_url)

\* The token was fetched, the transfer failed, and the HTTP-direct fetch
\* completed the call
C3_Witness ==
    /\ hist[1].resolved = "xet"
    /\ hist[1].attempts = <<"ResolveMetadata", "TryCas", "TryHttp">>
    /\ hist[1].refresh_reqs = 1
    /\ hist[1].transfers = 1
    /\ hist[1].succeeded = <<"TryHttp">>
    /\ result[1] = Some(Ok(<<>>))

\* C4: when the resolved metadata carries no xet_file_data, the call never
\* looks up, refreshes or inserts into the token cache and never runs
\* TryCas; the next strategy is TryHttp, and when its fetch and write
\* succeed the call has returned Ok without entering Legacy.
C4_PlainSkipsTokenCache ==
    hist[1].resolved = "plain" =>
        LET a == hist[1].attempts
        IN /\ pc[1] \in {"http_get", "legacy_get", "idle", "batch_loop"}
           /\ hist[1].lookups = 0
           /\ hist[1].refresh_reqs = 0
           /\ hist[1].inserts = 0
           /\ hist[1].transfers = 0
           /\ lock = 0
           /\ \A i \in 1..Len(a) : a[i] # "TryCas"
           /\ Len(a) >= 2 => a[2] = "TryHttp"
           /\ hist[1].succeeded = <<"TryHttp">> =>
                 /\ a = <<"ResolveMetadata", "TryHttp">>
                 /\ hist[1].legacy_gets = 0
                 /\ req[1].destination \in files
                 /\ pc[1] \in {"idle", "batch_loop"}
                 /\ op[1] = "download_file" => result[1] = Some(Ok(<<>>))

\* Plain metadata, the HTTP-direct fetch succeeded and the call returned Ok
C4_Witness ==
    /\ hist[1].resolved = "plain"
    /\ hist[1].succeeded = <<"TryHttp">>
    /\ op[1] = "download_file"
    /\ pc[1] = "idle"
    /\ result[1] = Some(Ok(<<>>))
    /\ TOKEN_CACHE = <<>>

\* C5 as stated: after validation and parse_repo have passed, download_file
\* returns an error only when Legacy has requested every candidate URL
\* without success, and the error is Legacy's NetworkError.
C5_Original ==
    LET failed == IF op[1] = "download_file"
                  THEN pc[1] = "idle" /\ IsSome(result[1]) /\ ~Unwrap(result[1]).ok
                  ELSE batch[1].failed # 0
        e == IF op[1] = "download_file" THEN Unwrap(result[1]).err
             ELSE batch[1].failure
        urls == build_resolve_urls(ENDPOINT, req[1].repo_info, req[1].path,
                                   req[1].resolved_revision)
    IN (failed /\ hist[1].attempts # <<>>) =>
          /\ e.kind = "NetworkError"
          /\ hist[1].legacy_gets = Len(urls)

\* C5, amended: after validation and parse_repo have passed, every error
\* download_file returns is raised by Legacy. It is either the NetworkError
\* raised after every candidate URL was requested without success, whose
\* message ends with the error of the last candidate, or the IoError raised
\* as soon as the bytes of one candidate were fetched and the directory or
\* the file could not be written, the remaining candidates left untried.
C5_OnlyLegacyErrorsSurface ==
    LET failed == IF op[1] = "download_file"
                  THEN pc[1] = "idle" /\ IsSome(result[1]) /\ ~Unwrap(result[1]).ok
                  ELSE batch[1].failed # 0
        e == IF op[1] = "download_file" THEN Unwrap(result[1]).err
             ELSE batch[1].failure
        urls == build_resolve_urls(ENDPOINT, req[1].repo_info, req[1].path,
                                   req[1].resolved_revision)
        last == urls[Len(urls)]
        prefix == "Could not download file. Tried multiple endpoints. Last error: "
        a == hist[1].attempts
    IN (failed /\ a # <<>>) =>
          /\ a[Len(a)] = "Legacy"
          /\ hist[1].succeeded = <<>>
          /\ \/ /\ e.kind = "NetworkError"
                /\ hist[1].legacy_gets = Len(urls)
                /\ e.message \in
                      {prefix \o "Request error: " \o TransportErrorText(last),
                       prefix \o "Failed to read response body: " \o BodyErrorText(last)}
                      \cup {prefix \o "HTTP error: " \o StatusErrorText(st, last) :
                               st \in {401, 403, 404, 500}}
             \/ /\ e.kind = "IoError"
                /\ hist[1].legacy_gets \in 1..Len(urls)
                /\ e.message \in {"Failed to create directory: " \o IO_ERROR_TEXT,
                                  "Failed to write file: " \o IO_ERROR_TEXT}

\* Every strategy was attempted and failed; the caller holds Legacy's
\* NetworkError
C5_Witness ==
    /\ op[1] = "download_file"
    /\ pc[1] = "idle"
    /\ hist[1].attempts = <<"ResolveMetadata", "TryCas", "TryHttp", "Legacy">>
    /\ hist[1].legacy_gets = 3
    /\ IsSome(result[1])
    /\ ~Unwrap(result[1]).ok
    /\ Unwrap(result[1]).err.kind = "NetworkError"

\* C6: download_files_batch enters download_file for its requests in list
\* order, one at a time and each at most once; once request i has failed the
\* call has returned, requests 1..i are the ones attempted and no later one
\* is.
C6_BatchStopsAtFirstFailure ==
    op[1] = "download_files_batch" =>
        LET b == batch[1]
        IN /\ b.attempted = [k \in 1..Len(b.attempted) |-> k]
           /\ Len(b.attempted) <= Len(b.requests)
           /\ pc[1] = "batch_loop" => Len(b.attempted) = b.i - 1
           /\ pc[1] \notin {"batch_loop", "idle"} => Len(b.attempted) = b.i
           /\ b.failed # 0 =>
                 /\ pc[1] = "idle"
                 /\ b.i = b.failed
                 /\ b.attempted = [k \in 1..b.failed |-> k]
           /\ (pc[1] = "idle" /\ b.failed = 0) =>
                 b.attempted = [k \in 1..Len(b.requests) |-> k]

\* A batch of three whose second request failed after its download was
\* tried: the third was never attempted
C6_Witness ==
    /\ op[1] = "download_files_batch"
    /\ Len(batch[1].requests) = 3
    /\ batch[1].failed = 2
    /\ batch[1].attempted = <<1, 2>>
    /\ hist[1].legacy_gets >= 1
    /\ pc[1] = "idle"

\* C7 as stated: when a request of the batch fails, the result of the call
\* carries the destinations of the requests completed before the failure.
C7_Original ==
    (op[1] = "download_files_batch" /\ pc[1] = "idle" /\ batch[1].failed # 0) =>
        Unwrap(result[1]).val = batch[1].results

\* C7, amended: when a request of the batch fails, the call returns only
\* OperationFailed with the message "Failed to download <path>: <error>" of
\* the failing request; the destinations of the requests completed before
\* it, each written on disk, are not part of the result. The list of
\* destinations, in list order, is returned only when every request
\* succeeded.
C7_BatchFailureNamesPathAndError ==
    (op[1] = "download_files_batch" /\ pc[1] = "idle" /\ IsSome(result[1])) =>
        LET b == batch[1]
            res == Unwrap(result[1])
        IN /\ b.results = [k \in 1..Len(b.results) |-> b.requests[k].destination]
           /\ \A k \in 1..Len(b.results) : b.results[k] \in files
           /\ b.failed # 0 =>
                 /\ Len(b.results) = b.failed - 1
                 /\ ~res.ok
                 /\ res.val = <<>>
                 /\ res.err.kind = "OperationFailed"
                 /\ res.err.message =
                       "Failed to download " \o Join(b.requests[b.failed].path, "/")
                       \o ": " \o Display(b.failure)
           /\ b.failed = 0 =>
                 /\ res.ok
                 /\ res.val = [k \in 1..Len(b.requests) |-> b.requests[k].destination]

\* A batch of three whose second request failed: the first destination is
\* on disk and the result is the error alone
C7_Witness ==
    /\ op[1] = "download_files_batch"
    /\ pc[1] = "idle"
    /\ Len(batch[1].requests) = 3
    /\ batch[1].failed = 2
    /\ batch[1].results = <<"d1">>
    /\ "d1" \in files
    /\ IsSome(result[1])
    /\ ~Unwrap(result[1]).ok

(***************************************************************************)
(* Specification of the token cache alone: one caller of                   *)
(* get_cached_cas_jwt after the other, fine-grained time                   *)
(***************************************************************************)
FineSteps ==
    {1, TOKEN_CACHE_SAFETY_WINDOW * TicksPerSec - 1,
     TOKEN_CACHE_SAFETY_WINDOW * TicksPerSec,
     (TOKEN_CACHE_SAFETY_WINDOW + 1) * TicksPerSec}

NextCache ==
    \/ \E r \in Routes : CallGetCachedCasJwt(1, r)
    \/ GetCachedTokenLock(1)
    \/ GetCachedToken(1)
    \/ \E ans \in RefreshAnswers(route[1], Serials, FineExps(now)) :
          CasRefreshAnswer(1, ans)
    \/ CacheTokenLock(1)
    \/ CacheToken(1)
    \/ \E d \in FineSteps : Tick(d)

SpecCache == Init /\ [][NextCache]_vars


(***************************************************************************)
(* Properties of the token cache, checked under SpecCache                  *)
(***************************************************************************)
\* C8: whenever get_cached_cas_jwt(K) reads the cache while it holds an
\* entry for K with now < expires_at, the call returns that entry's token
\* at once, has sent no request, and leaves the cache as it is; this holds
\* for every one of the repeated calls.
C8_ValidEntryServedFromCache ==
    [][(/\ op[1] = "get_cached_cas_jwt"
        /\ pc[1] = "cas_get"
        /\ pc'[1] # "cas_get"
        /\ route[1] \in DOMAIN TOKEN_CACHE
        /\ now < TOKEN_CACHE[route[1]].expires_at)
       => /\ pc'[1] = "idle"
          /\ result'[1] = Some(Ok(Some(TOKEN_CACHE[route[1]].value)))
          /\ hist'[1].refresh_reqs = 0
          /\ hist'[1].inserts = 0
          /\ TOKEN_CACHE' = TOKEN_CACHE]_vars

\* The third call in a row has been answered from the cache without a
\* request
C8_Witness ==
    /\ op[1] = "get_cached_cas_jwt"
    /\ pc[1] = "idle"
    /\ started >= 3
    /\ hist[1].hit
    /\ hist[1].refresh_reqs = 0
    /\ IsSome(result[1])
    /\ Unwrap(result[1]).ok
    /\ Unwrap(Unwrap(result[1]).val) = TOKEN_CACHE[route[1]].value

\* C9 as stated: a cached entry is valid exactly while now < exp - 60 s,
\* now being the wall clock.
C9_Original ==
    \A k \in DOMAIN TOKEN_CACHE :
        is_valid(TOKEN_CACHE[k], now)
        <=> UnixAtBoot * TicksPerSec + now
              < (TOKEN_CACHE[k].value.exp - TOKEN_CACHE_SAFETY_WINDOW) * TicksPerSec

\* C9, amended: with T the wall clock in whole seconds when the entry was
\* cached, an entry with exp = T + 120 is valid at every time before T + 60
\* and invalid at every time from T + 61 on. In general, with
\* ttl = max(exp - T, 0), the entry is valid exactly while less than
\* ttl - 60 seconds have passed since it was cached, which is up to one
\* second later than exp - 60 because T drops the fraction of the second;
\* an entry whose ttl does not fit an Instant is never valid.
C9_ValidWhileTtlMinusWindow ==
    \A k \in DOMAIN TOKEN_CACHE :
        LET e == TOKEN_CACHE[k]
            c == e.cached_at
            T == UnixAtBoot + (c \div TicksPerSec)
            ttl == IF e.value.exp > T THEN e.value.exp - T ELSE 0
            wall == UnixAtBoot * TicksPerSec + now
            fits == (c \div TicksPerSec) + ttl <= I64Max
        IN /\ e.value.exp = T + 120 =>
                /\ wall < (T + 60) * TicksPerSec => is_valid(e, now)
                /\ wall >= (T + 61) * TicksPerSec => ~is_valid(e, now)
           /\ fits => (is_valid(e, now) <=> now - c < (ttl - 60) * TicksPerSec)
           /\ fits => (wall < (e.value.exp - 60) * TicksPerSec => is_valid(e, now))
           /\ fits => (wall >= (e.value.exp - 59) * TicksPerSec => ~is_valid(e, now))
           /\ ~fits => ~is_valid(e, now)

\* An entry cached with exp = T + 120 is invalid 61 seconds later
C9_Witness ==
    \E k \in DOMAIN TOKEN_CACHE :
        LET e == TOKEN_CACHE[k]
            T == UnixAtBoot + (e.cached_at \div TicksPerSec)
        IN /\ e.value.exp = T + 120
           /\ UnixAtBoot * TicksPerSec + now = (T + 61) * TicksPerSec
           /\ ~is_valid(e, now)

\* C10 as stated: every token get_cached_cas_jwt returns has at least 60
\* seconds left before exp at the time of the return.
C10_Original ==
    [][(/\ op[1] = "get_cached_cas_jwt"
        /\ pc[1] # "idle"
        /\ pc'[1] = "idle"
        /\ Unwrap(result'[1]).ok)
       => Unwrap(Unwrap(result'[1]).val).exp * TicksPerSec
             - (UnixAtBoot * TicksPerSec + now')
          >= TOKEN_CACHE_SAFETY_WINDOW * TicksPerSec]_vars

\* C10, amended: a token get_cached_cas_jwt returns from the cache has more
\* than 59 seconds left before exp when its validity is checked; a token
\* returned from a refresh is the one just received and cached, whatever
\* its exp.
C10_CachedTokenHasWindowLeft ==
    [][(/\ op[1] = "get_cached_cas_jwt"
        /\ pc[1] # "idle"
        /\ pc'[1] = "idle"
        /\ Unwrap(result'[1]).ok)
       => IF hist'[1].hit
          THEN Unwrap(Unwrap(result'[1]).val).exp * TicksPerSec
                  - (UnixAtBoot * TicksPerSec + now')
               > (TOKEN_CACHE_SAFETY_WINDOW - 1) * TicksPerSec
          ELSE /\ pc[1] = "cas_insert"
               /\ hist'[1].refresh_reqs = 1
               /\ Unwrap(result'[1]).val = jwt[1]
               /\ TOKEN_CACHE'[route[1]].value = Unwrap(jwt[1])]_vars

\* A token returned from the cache with no more than 60 seconds left
C10_Witness ==
    /\ op[1] = "get_cached_cas_jwt"
    /\ pc[1] = "idle"
    /\ hist[1].hit
    /\ IsSome(result[1])
    /\ Unwrap(result[1]).ok
    /\ Unwrap(Unwrap(result[1]).val).exp * TicksPerSec
          - (UnixAtBoot * TicksPerSec + now)
       <= TOKEN_CACHE_SAFETY_WINDOW * TicksPerSec


\* C11: the cache holds one entry per refresh route; the only step that
\* changes it is the insert of a refresh, which puts a whole new entry
\* (the fetched token with the expires_at computed from that token) under
\* the route of the call and leaves every other entry alone; and a call
\* whose lookup finds the route absent or its entry expired sends a refresh
\* request, and returns only after it.
C11_WholeEntryReplacedAndMissRefreshes ==
    [][/\ TOKEN_CACHE' # TOKEN_CACHE =>
            /\ pc[1] = "cas_insert"
            /\ DOMAIN TOKEN_CACHE' = DOMAIN TOKEN_CACHE \cup {route[1]}
            /\ \A k \in DOMAIN TOKEN_CACHE \ {route[1]} : TOKEN_CACHE'[k] = TOKEN_CACHE[k]
            /\ TOKEN_CACHE'[route[1]].value = Unwrap(jwt[1])
       /\ \A k \in DOMAIN TOKEN_CACHE' :
            /\ TOKEN_CACHE'[k].value.access_token.route = k
            /\ TOKEN_CACHE'[k].expires_at =
                  compute_cache_expiry(TOKEN_CACHE'[k].value.exp, TOKEN_CACHE'[k].cached_at)
       /\ (/\ pc[1] = "cas_get"
           /\ pc'[1] # "cas_get"
           /\ \/ route[1] \notin DOMAIN TOKEN_CACHE
              \/ now >= TOKEN_CACHE[route[1]].expires_at)
          => /\ pc'[1] = "cas_await"
             /\ hist'[1].refresh_reqs = 1
       /\ (/\ op[1] = "get_cached_cas_jwt"
           /\ pc[1] # "idle"
           /\ pc'[1] = "idle"
           /\ ~hist'[1].hit)
          => hist'[1].refresh_reqs = 1]_vars

\* A refreshed token is about to replace the expired entry of its route
C11_Witness ==
    /\ pc[1] = "cas_insert"
    /\ route[1] \in DOMAIN TOKEN_CACHE
    /\ now >= TOKEN_CACHE[route[1]].expires_at
    /\ hist[1].refresh_reqs = 1
    /\ Unwrap(jwt[1]).exp # TOKEN_CACHE[route[1]].value.exp


(***************************************************************************)
(* Specification of concurrent callers of get_cached_cas_jwt: every thread *)
(* may be inside a call, the steps of the calls interleave                 *)
(***************************************************************************)
NextRace ==
    \/ \E t \in Threads, r \in Routes : CallGetCachedCasJwt(t, r)
    \/ \E t \in Threads : GetCachedTokenLock(t)
    \/ \E t \in Threads : GetCachedToken(t)
    \/ \E t \in Threads :
          \E ans \in RefreshAnswers(route[t], Serials, CoarseExps(now)) :
             CasRefreshAnswer(t, ans)
    \/ \E t \in Threads : CacheTokenLock(t)
    \/ \E t \in Threads : CacheToken(t)

SpecRace == Init /\ [][NextRace]_vars

\* C12: the mutex of the token cache is held only by a thread that is at
\* the map lookup or at the map insert; a thread whose refresh request is
\* in flight never holds it, so a thread waiting to look up is kept waiting
\* only by a thread that is itself at a lookup or an insert.
C12_LockNotHeldAcrossRefresh ==
    /\ lock \in {0} \cup Threads
    /\ \A t \in Threads :
          /\ lock = t => pc[t] \in {"cas_get", "cas_insert"}
          /\ pc[t] \in {"cas_get", "cas_insert"} => lock = t
          /\ pc[t] = "cas_await" => lock # t
    /\ \A t, u \in Threads :
          (/\ pc[t] = "cas_await"
           /\ pc[u] = "cas_lock_get"
           /\ \A v \in Threads : pc[v] \notin {"cas_get", "cas_insert"})
          => lock = 0

\* One thread is at its lookup, holding the mutex, while the refresh
\* request of another is in flight
C12_Witness ==
    \E t, u \in Threads :
        /\ t # u
        /\ pc[t] = "cas_await"
        /\ pc[u] = "cas_get"
        /\ lock = u


\* C13: concurrent calls for one refresh route that all miss the cache each
\* send their own refresh request; the token a call holds after its
\* request is not touched by the other calls; each call's insert puts its
\* own token under the route, overwriting what another call wrote, and the
\* call returns that token; nothing but an insert changes the cache, so
\* when all have finished the entry is the token of the last insert.
C13_LastInsertWins ==
    [][/\ \A t \in Threads :
            /\ (pc[t] = "cas_insert" /\ pc'[t] # "cas_insert") =>
                  /\ pc'[t] = "idle"
                  /\ hist'[t].refresh_reqs = 1
                  /\ result'[t] = Some(Ok(jwt[t]))
                  /\ TOKEN_CACHE'[route[t]].value = Unwrap(jwt[t])
                  /\ Unwrap(jwt[t]).access_token.route = route[t]
            /\ (pc[t] \in {"cas_lock_insert", "cas_insert"}
                /\ pc'[t] \in {"cas_lock_insert", "cas_insert"}) =>
                  jwt'[t] = jwt[t] /\ route'[t] = route[t]
            /\ (pc[t] = "cas_await" /\ pc'[t] = "cas_await") =>
                  hist'[t] = hist[t]
       /\ TOKEN_CACHE' # TOKEN_CACHE =>
            \E t \in Threads : pc[t] = "cas_insert" /\ pc'[t] = "idle"]_vars

\* Two calls for the same route both missed, each sent its own request and
\* returned its own token; the entry is the token of one of them and not
\* the token the other returned
C13_Witness ==
    \E t, u \in Threads :
        /\ t # u
        /\ route[t] = route[u]
        /\ pc[t] = "idle" /\ pc[u] = "idle"
        /\ hist[t].refresh_reqs = 1 /\ hist[u].refresh_reqs = 1
        /\ hist[t].inserts = 1 /\ hist[u].inserts = 1
        /\ started = 2
        /\ IsSome(result[t]) /\ IsSome(result[u])
        /\ Unwrap(result[t]).ok /\ Unwrap(result[u]).ok
        /\ Unwrap(result[t]).val # Unwrap(result[u]).val
        /\ TOKEN_CACHE[route[t]].value = Unwrap(Unwrap(result[t]).val)

(***************************************************************************)
(* fetch_file_metadata called on its own (xet_metadata.rs): one caller     *)
(* thread, the endpoint a parameter, the servers answering each request of *)
(* the candidate loop in every way they can                                *)
(***************************************************************************)
\* Endpoints a caller passes: the default host and another one, each with
\* and without a trailing '/'
Endpoints ==
    {HF_ENDPOINT, HF_ENDPOINT \o <<"/">>, <<"https://example.com">>,
     <<"https://example.com", "/">>}

\* fetch_file_metadata(endpoint, repo_type_plural, repo_full_name, path,
\* revision, token) up to the first request: the metadata client is built,
\* and a failure to build it is returned at once.
CallFetchFileMetadata(t, endpoint, repo_type, path, client_ok) ==
    /\ pc[t] = "idle"
    /\ started < MaxOps
    /\ started' = started + 1
    /\ op' = [op EXCEPT ![t] = "fetch_file_metadata"]
    /\ req' = [req EXCEPT ![t] =
                 [NoRequest EXCEPT !.endpoint = endpoint, !.path = path,
                                   !.repo_info = [repo_type |-> repo_type,
                                                  full_name |-> "o/r"],
                                   !.resolved_revision = <<"main">>]]
    /\ IF client_ok
       THEN /\ Continue(t, "meta_head", 1, None, None, <<>>, None, NoHist)
            /\ result' = [result EXCEPT ![t] = None]
       ELSE /\ Continue(t, "idle", 0, None, None, <<>>, None,
                        [NoHist EXCEPT !.resolved = "failed"])
            /\ result' = [result EXCEPT ![t] =
                  Some(Err(XetError("NetworkError", "Failed to create metadata client")))]
    /\ UNCHANGED <<now, ticks, env, TOKEN_CACHE, lock, files, batch>>

NextMeta ==
    \/ \E endpoint \in Endpoints, repo_type \in {"Model", "Dataset"},
          client_ok \in BOOLEAN :
          CallFetchFileMetadata(1, endpoint, repo_type, <<"dir", "f.txt">>, client_ok)
    \/ \E ans \in MetaAnswers : MetaHead(1, ans)
    \/ \E ans \in MetaAnswers : MetaGet(1, ans)

SpecMeta == Init /\ [][NextMeta]_vars

(***************************************************************************)
(* Properties of the candidate loop of fetch_file_metadata, checked under  *)
(* SpecMeta                                                                *)
(***************************************************************************)
\* The candidate URLs of a fetch_file_metadata call with parameters r
UrlsOf(r) ==
    candidate_urls(r.endpoint, repo_type_plural(r.repo_info.repo_type),
                   r.repo_info.full_name, r.path, r.resolved_revision)

\* The response to request p of a call with parameters r is 2xx or 3xx and
\* its headers parse
GoodResponse(p, r) ==
    /\ p.answer.sent
    /\ (is_success(p.answer.status) \/ is_redirection(p.answer.status))
    /\ parse_metadata_from_response(p.answer.headers, UrlsOf(r)[p.cand],
                                    trim_end_slashes(r.endpoint)).ok

\* A request of the candidate loop is issued in this step
RequestStep(t) ==
    hist'[t].heads + hist'[t].gets = hist[t].heads + hist[t].gets + 1

\* C14: fetch_file_metadata tries its candidate URLs in list order (the
\* k-th HEAD goes to the k-th candidate, a ranged GET to the candidate whose
\* HEAD has just had no response); the first response that is 2xx or 3xx
\* and whose headers parse ends the call with the metadata parsed from it,
\* its download_url the URL of that candidate; and a call that has returned
\* issues no further request.
C14_FirstParseableResponseWins ==
    [][ /\ RequestStep(1) =>
             LET p == Unwrap(hist'[1].response) IN
             /\ pc[1] \in {"meta_head", "meta_get"}
             /\ p.cand = cand[1]
             /\ p.cand \in 1..Len(MetadataUrls(1))
             /\ p.verb = "HEAD" => (pc[1] = "meta_head" /\ p.cand = hist[1].heads + 1)
             /\ p.verb = "GET" =>
                   /\ pc[1] = "meta_get"
                   /\ p.cand = hist[1].heads
                   /\ Unwrap(hist[1].response).verb = "HEAD"
                   /\ Unwrap(hist[1].response).cand = p.cand
                   /\ ~Unwrap(hist[1].response).answer.sent
             /\ req'[1] = req[1]
             /\ GoodResponse(p, req[1]) =>
                   /\ pc'[1] = "idle"
                   /\ result'[1] =
                         Some(parse_metadata_from_response(
                                 p.answer.headers, MetadataUrls(1)[p.cand],
                                 trim_end_slashes(req[1].endpoint)))
                   /\ Unwrap(Unwrap(result'[1]).val).download_url
                         = MetadataUrls(1)[hist'[1].heads]
             /\ (IsSome(result'[1]) /\ Unwrap(result'[1]).ok) => GoodResponse(p, req[1])
        /\ ~RequestStep(1) =>
             (hist'[1].heads + hist'[1].gets \in {0, hist[1].heads + hist[1].gets})
        /\ (pc[1] = "idle" /\ started' = started) => hist'[1] = hist[1]
      ]_vars

\* the third candidate answers the ranged GET with a parseable redirect
C14_Witness ==
    /\ pc[1] = "idle" /\ op[1] = "fetch_file_metadata"
    /\ IsSome(result[1]) /\ Unwrap(result[1]).ok
    /\ hist[1].heads = 3 /\ hist[1].gets >= 2
    /\ Unwrap(hist[1].response).verb = "GET"
    /\ Unwrap(hist[1].response).answer.status = 302

\* The last request of the loop has failed: no response to the ranged GET,
\* or a response that is not a parseable 2xx or 3xx
FailedAttempt(p, r) ==
    /\ ~GoodResponse(p, r)
    /\ (p.verb = "HEAD" => p.answer.sent)

\* C15: no failure on a candidate ends the candidate loop: after a 4xx
\* status (401 and 403 included), a 5xx status, a response whose headers do
\* not parse, or a transport error, the loop goes on (a HEAD with no
\* response is followed by the ranged GET of the same candidate, every
\* other failure by the HEAD of the next candidate), and a call whose
\* metadata client was built returns Err only after all candidates have
\* been requested.
C15_FailureDoesNotAbortLoop ==
    [][ /\ RequestStep(1) =>
             LET p == Unwrap(hist'[1].response)
                 n == Len(MetadataUrls(1))
             IN /\ (p.verb = "HEAD" /\ ~p.answer.sent) =>
                      (pc'[1] = "meta_get" /\ cand'[1] = p.cand /\ ~IsSome(result'[1]))
                /\ (FailedAttempt(p, req[1]) /\ p.cand < n) =>
                      (pc'[1] = "meta_head" /\ cand'[1] = p.cand + 1
                       /\ ~IsSome(result'[1]))
                /\ (IsSome(result'[1]) /\ ~Unwrap(result'[1]).ok) =>
                      (p.cand = n /\ hist'[1].heads = n /\ FailedAttempt(p, req[1]))
      ]_vars

\* a 401 on the first candidate, and the loop is at the second
C15_Witness ==
    /\ pc[1] = "meta_head" /\ op[1] = "fetch_file_metadata"
    /\ cand[1] = 2
    /\ Unwrap(hist[1].response).answer.sent
    /\ Unwrap(hist[1].response).answer.status = 401

\* The error text the loop records for a failed attempt p
AttemptError(p, r) ==
    LET url == UrlsOf(r)[p.cand] IN
    IF ~p.answer.sent THEN "GET request failed: " \o TransportErrorText(url)
    ELSE IF is_success(p.answer.status) \/ is_redirection(p.answer.status)
    THEN Display(parse_metadata_from_response(
                    p.answer.headers, url, trim_end_slashes(r.endpoint)).err)
    ELSE IF is_client_error(p.answer.status)
    THEN p.verb \o " request failed with status: " \o StatusText(p.answer.status)
    ELSE p.verb \o " request received unexpected status: "
            \o StatusText(p.answer.status)

\* C16: a fetch_file_metadata call that has requested every candidate
\* without a parseable response returns NetworkError whose message is
\* "Failed to retrieve HEAD metadata: " followed by the error of the last
\* failed attempt, the one on the last candidate; it is never the
\* placeholder "unknown error".
C16_LastErrorReported ==
    (/\ pc[1] = "idle" /\ op[1] = "fetch_file_metadata"
     /\ IsSome(result[1]) /\ ~Unwrap(result[1]).ok
     /\ hist[1].heads > 0)
    => LET p == Unwrap(hist[1].response) IN
       /\ p.cand = Len(MetadataUrls(1))
       /\ Unwrap(result[1]).err =
             XetError("NetworkError",
                      "Failed to retrieve HEAD metadata: " \o AttemptError(p, req[1]))
       /\ Unwrap(result[1]).err #
             XetError("NetworkError", "Failed to retrieve HEAD metadata: unknown error")

\* every candidate failed, the last one with a 500 to its ranged GET
C16_Witness ==
    /\ pc[1] = "idle" /\ op[1] = "fetch_file_metadata"
    /\ IsSome(result[1]) /\ ~Unwrap(result[1]).ok
    /\ hist[1].heads = 4 /\ hist[1].gets = 4
    /\ Unwrap(hist[1].response).verb = "GET"
    /\ Unwrap(hist[1].response).answer.status = 500

\* A size header that carries an unsigned integer; a header with any other
\* value is passed over like an absent one
HasNumber(header) == IsSome(header) /\ Unwrap(header) >= 0 /\ Unwrap(header) <= U64Max

\* The response to request p has a status whose headers are parsed, and
\* carries the commit and an entity tag
SizeDecides(p) ==
    /\ p.answer.sent
    /\ (is_success(p.answer.status) \/ is_redirection(p.answer.status))
    /\ IsSome(p.answer.headers.x_repo_commit)
    /\ (IsSome(p.answer.headers.x_linked_etag) \/ IsSome(p.answer.headers.etag))

\* C17: the size resolved from a response is the x-linked-size value when
\* that header carries one; otherwise the total (the part after the last
\* '/') of Content-Range; otherwise Content-Length; a response with none of
\* the three does not parse ("Missing file size headers in response") and
\* the loop goes on or ends with that error. x-linked-size 1234 wins over
\* Content-Length 99, and Content-Range "bytes 0-0/98765" without a linked
\* size yields 98765.
C17_FileSizePrecedence ==
    (op[1] = "fetch_file_metadata" /\ IsSome(hist[1].response)
     /\ pc[1] \in {"idle", "meta_head"} /\ SizeDecides(Unwrap(hist[1].response)))
    => LET h == Unwrap(hist[1].response).answer.headers
           returned == pc[1] = "idle" /\ IsSome(result[1]) /\ Unwrap(result[1]).ok
           size == Unwrap(Unwrap(result[1]).val).size
           missing == Display(XetError("NetworkError",
                                       "Missing file size headers in response"))
       IN /\ HasNumber(h.x_linked_size) =>
                (returned /\ size = Unwrap(h.x_linked_size))
          /\ (~HasNumber(h.x_linked_size) /\ IsSome(h.content_range)
              /\ Len(Unwrap(h.content_range)) > 0
              /\ HasNumber(Some(Unwrap(h.content_range)[Len(Unwrap(h.content_range))]))) =>
                (returned
                 /\ size = Unwrap(h.content_range)[Len(Unwrap(h.content_range))])
          /\ (~HasNumber(h.x_linked_size)
              /\ (IsSome(h.content_range) =>
                    ~HasNumber(Some(Unwrap(h.content_range)[Len(Unwrap(h.content_range))])))
              /\ HasNumber(h.content_length)) =>
                (returned /\ size = Unwrap(h.content_length))
          /\ (~IsSome(h.x_linked_size) /\ ~IsSome(h.content_range)
              /\ ~IsSome(h.content_length)) =>
                /\ ~returned
                /\ pc[1] = "meta_head" => last_error[1] = Some(missing)
                /\ pc[1] = "idle" =>
                      Unwrap(result[1]).err =
                         XetError("NetworkError",
                                  "Failed to retrieve HEAD metadata: " \o missing)
          /\ (h.x_linked_size = Some(1234) /\ h.content_length = Some(99)) =>
                (returned /\ size = 1234)
          /\ (h.x_linked_size = None /\ h.content_range = Some(<<-1, 98765>>)) =>
                (returned /\ size = 98765)

\* x-linked-size 1234 beside Content-Range .../98765 and Content-Length 99
C17_Witness ==
    /\ pc[1] = "idle" /\ op[1] = "fetch_file_metadata"
    /\ IsSome(result[1]) /\ Unwrap(result[1]).ok
    /\ Unwrap(hist[1].response).answer.headers = H_ALL_SIZES
    /\ Unwrap(Unwrap(result[1]).val).size = 1234

\* The refresh route a response names: the Link rel="xet-auth" entry of
\* H_XET_LINK, the x-xet-refresh-route header of H_XET_ROUTE
NamedRoute(h) == IF h = H_XET_LINK THEN ROUTE_1 ELSE ROUTE_2

\* C18: a refresh route rooted at https://huggingface.co comes out of
\* fetch_file_metadata with scheme and host replaced by the endpoint of the
\* call (its trailing '/' dropped) and the path kept when the endpoint is
\* another host (https://example.com gives
\* https://example.com/api/models/o/r/xet-read-token/main), and unchanged
\* when the endpoint is the default host, whether the route was taken from
\* the Link rel="xet-auth" entry or from the x-xet-refresh-route header.
C18_RefreshRouteRewritten ==
    (/\ pc[1] = "idle" /\ op[1] = "fetch_file_metadata"
     /\ IsSome(result[1]) /\ Unwrap(result[1]).ok
     /\ Unwrap(hist[1].response).answer.headers \in {H_XET_LINK, H_XET_ROUTE})
    => LET named == NamedRoute(Unwrap(hist[1].response).answer.headers)
           data == Unwrap(Unwrap(result[1]).val).xet_file_data
           ep == req[1].endpoint
       IN /\ named[1] = "https://huggingface.co"
          /\ IsSome(data)
          /\ ep \in {HF_ENDPOINT, HF_ENDPOINT \o <<"/">>} =>
                Concat(Unwrap(data).refresh_route) = Concat(named)
          /\ ep = HF_ENDPOINT => Unwrap(data).refresh_route = named
          /\ ep \in {<<"https://example.com">>, <<"https://example.com", "/">>} =>
                /\ Concat(Unwrap(data).refresh_route) = "https://example.com" \o named[2]
                /\ Concat(Unwrap(data).refresh_route) # Concat(named)

\* a route from the x-xet-refresh-route header, the endpoint another host
\* written with a trailing '/'
C18_Witness ==
    /\ pc[1] = "idle" /\ op[1] = "fetch_file_metadata"
    /\ IsSome(result[1]) /\ Unwrap(result[1]).ok
    /\ Unwrap(hist[1].response).answer.headers = H_XET_ROUTE
    /\ req[1].endpoint = <<"https://example.com", "/">>
    /\ Concat(Unwrap(Unwrap(Unwrap(result[1]).val).xet_file_data).refresh_route)
          = "https://example.com/api/datasets/o/r/xet-read-token/main"

(***************************************************************************)
(* http_get_bytes (lib.rs): the HTTP-direct fetch of a URL by a client     *)
(* built by new() or with_token(), the server answering in every way       *)
(***************************************************************************)
\* Url::parse and Url::domain of the URLs the model fetches: whether the
\* text parses, and the domain of its host (None for an IP address and for
\* a URL without host)
Url_parse(text) ==
    CASE text = "https://huggingface.co"
            -> [ok |-> TRUE, domain |-> Some("huggingface.co")]
      [] text = "https://huggingface.co/o/r/resolve/main/f.bin"
            -> [ok |-> TRUE, domain |-> Some("huggingface.co")]
      [] text = "http://huggingface.co:8080/o/r/resolve/main/f.bin"
            -> [ok |-> TRUE, domain |-> Some("huggingface.co")]
      [] text = "https://cdn.huggingface.co/f.bin"
            -> [ok |-> TRUE, domain |-> Some("cdn.huggingface.co")]
      [] text = "https://cdn-lfs.example.org/f.bin"
            -> [ok |-> TRUE, domain |-> Some("cdn-lfs.example.org")]
      [] text = "https://192.0.2.7/f.bin"
            -> [ok |-> TRUE, domain |-> None]
      [] text = "data:text/plain,f"
            -> [ok |-> TRUE, domain |-> None]
      [] OTHER -> [ok |-> FALSE, domain |-> None]

FetchUrls ==
    {"https://huggingface.co/o/r/resolve/main/f.bin",
     "http://huggingface.co:8080/o/r/resolve/main/f.bin",
     "https://cdn.huggingface.co/f.bin",
     "https://cdn-lfs.example.org/f.bin",
     "https://192.0.2.7/f.bin",
     "data:text/plain,f",
     "/o/r/resolve/main/f.bin"}

\* self.token of a client: None after new(), the caller's token after
\* with_token()
ClientTokens == {None, Some("hf_token_a"), Some("hf_token_b")}

\* should_send_auth with the token sent to every URL
should_send_auth_always(token, download_url, endpoint) == TRUE

\* XetClient::should_send_auth
should_send_auth(token, download_url, endpoint) ==
    IF ~IsSome(token) THEN FALSE
    ELSE LET target == Url_parse(download_url)
             base == Url_parse(endpoint)
         IN IF target.ok /\ base.ok THEN target.domain = base.domain ELSE TRUE

\* The request http_get_bytes builds: self.http_client.get(url) is an
\* error for a URL that does not parse, and bearer_auth leaves such a
\* builder as it is
build_request(token, url, endpoint) ==
    IF ~Url_parse(url).ok THEN None
    ELSE Some([url |-> url,
               authorization |-> IF should_send_auth(token, url, endpoint) /\ IsSome(token)
                                 THEN token ELSE None])

\* http_get_bytes(url) up to request.send(): a request that could not be
\* built is returned as an error without anything being sent
CallHttpGetBytes(t, url, token) ==
    LET request == build_request(token, url, Concat(ENDPOINT))
        h == [NoHist EXCEPT !.http_gets = 1, !.http_url = Some(url),
                            !.http_request = request]
    IN /\ pc[t] = "idle"
       /\ started < MaxOps
       /\ started' = started + 1
       /\ op' = [op EXCEPT ![t] = "http_get_bytes"]
       /\ req' = [req EXCEPT ![t] =
                    [NoRequest EXCEPT !.endpoint = ENDPOINT, !.token = token]]
       /\ IF IsSome(request)
          THEN /\ Continue(t, "bytes_get", 0, None, None, <<>>, None, h)
               /\ result' = [result EXCEPT ![t] = None]
          ELSE /\ Continue(t, "idle", 0, None, None, <<>>, None, h)
               /\ result' = [result EXCEPT ![t] =
                     Some(Err(XetError("NetworkError", "Request error: builder error")))]
       /\ UNCHANGED <<now, ticks, env, TOKEN_CACHE, lock, files, batch>>

\* send, error_for_status and bytes of http_get_bytes
HttpBytesAnswer(t, ans) ==
    /\ pc[t] = "bytes_get"
    /\ LET url == Unwrap(hist[t].http_url)
           res == IF ~ans.sent
                  THEN Err(XetError("NetworkError",
                                    "Request error: " \o TransportErrorText(url)))
                  ELSE IF ~is_success(ans.status)
                  THEN Err(XetError("NetworkError",
                                    "HTTP error: " \o StatusErrorText(ans.status, url)))
                  ELSE IF ~ans.body_ok
                  THEN Err(XetError("NetworkError",
                                    "Failed to read response body: " \o BodyErrorText(url)))
                  ELSE Ok("bytes of " \o url)
       IN /\ pc' = [pc EXCEPT ![t] = "idle"]
          /\ result' = [result EXCEPT ![t] = Some(res)]
    /\ UNCHANGED <<now, ticks, env, started, TOKEN_CACHE, lock, files, op, req, cand,
                   last_error, metadata, route, jwt, batch, hist>>

NextAuth ==
    \/ \E url \in FetchUrls, token \in ClientTokens : CallHttpGetBytes(1, url, token)
    \/ \E ans \in ByteAnswers : HttpBytesAnswer(1, ans)

SpecAuth == Init /\ [][NextAuth]_vars

\* C19: the HTTP-direct fetch puts an Authorization header on the request
\* it sends only when the client has a token and the host of the fetched
\* URL is the host of the endpoint, the header then being that token; a
\* request to another host, to a sub-domain, to an IP address or to a URL
\* without host carries none, a URL that does not parse has no request sent
\* at all, and a client without token never sends the header.
C19_TokenOnlyToEndpointHost ==
    (op[1] = "http_get_bytes")
    => LET url == Unwrap(hist[1].http_url)
           same_host == url \in {"https://huggingface.co/o/r/resolve/main/f.bin",
                                 "http://huggingface.co:8080/o/r/resolve/main/f.bin"}
       IN /\ url = "/o/r/resolve/main/f.bin" =>
                (hist[1].http_request = None /\ pc[1] = "idle"
                 /\ ~Unwrap(result[1]).ok)
          /\ url # "/o/r/resolve/main/f.bin" =>
                /\ IsSome(hist[1].http_request)
                /\ Unwrap(hist[1].http_request).url = url
          /\ IsSome(hist[1].http_request) =>
                LET sent == Unwrap(hist[1].http_request) IN
                /\ IsSome(sent.authorization) =>
                      (same_host /\ IsSome(req[1].token)
                       /\ sent.authorization = req[1].token)
                /\ ~same_host => sent.authorization = None
                /\ req[1].token = None => sent.authorization = None

\* a client with a token has fetched a URL of another host, and the request
\* carried no Authorization
C19_Witness ==
    /\ op[1] = "http_get_bytes" /\ pc[1] = "idle"
    /\ IsSome(req[1].token)
    /\ IsSome(result[1]) /\ Unwrap(result[1]).ok
    /\ IsSome(hist[1].http_request)
    /\ Unwrap(hist[1].http_request).url = "https://cdn-lfs.example.org/f.bin"
    /\ Unwrap(hist[1].http_request).authorization = None

(***************************************************************************)
(* get_file_content (lib.rs): the content of a file as bytes in memory     *)
(***************************************************************************)
\* The checks at the head of get_file_content and parse_repo
validate_content(r, accepted) ==
    IF is_empty(r.repo)
    THEN Err(XetError("InvalidInput", "Repository cannot be empty"))
    ELSE IF is_empty(r.path)
    THEN Err(XetError("InvalidInput", "Path cannot be empty"))
    ELSE parse_repo(r.repo, accepted)

\* get_file_content(repo, path, revision) up to the first request of
\* fetch_file_metadata
CallGetFileContent(t, r, accepted, client_ok) ==
    LET checked == validate_content(r, accepted)
        client_err == Err(XetError("NetworkError", "Failed to create metadata client"))
        h == [NoHist EXCEPT !.attempts = <<"ResolveMetadata">>,
                            !.resolved = IF client_ok THEN "" ELSE "failed"]
    IN /\ pc[t] = "idle"
       /\ started < MaxOps
       /\ started' = started + 1
       /\ op' = [op EXCEPT ![t] = "get_file_content"]
       /\ IF ~checked.ok
          THEN /\ req' = [req EXCEPT ![t] = NoRequest]
               /\ Continue(t, "idle", 0, None, None, <<>>, None, NoHist)
               /\ result' = [result EXCEPT ![t] = Some(Err(checked.err))]
          ELSE /\ req' = [req EXCEPT ![t] =
                      [NoRequest EXCEPT
                          !.repo = r.repo, !.path = r.path, !.revision = r.revision,
                          !.repo_info = Unwrap(checked.val),
                          !.resolved_revision = IF IsSome(r.revision)
                                                THEN Unwrap(r.revision) ELSE <<"main">>,
                          !.endpoint = ENDPOINT]]
               /\ IF client_ok
                  THEN Continue(t, "meta_head", 1, None, None, <<>>, None, h)
                  ELSE Continue(t, content_after_metadata(client_err), 1, None, None,
                                <<>>, None, h)
               /\ result' = [result EXCEPT ![t] = None]
       /\ UNCHANGED <<now, ticks, env, TOKEN_CACHE, lock, files, batch>>

\* get_file_content returns res: to its caller, or to get_file_info, which
\* passes an error on by `?` and parses the bytes as a pointer file
ContentReturn(t, res, h) ==
    /\ Continue(t, "idle", 0, None, None, <<>>, None, h)
    /\ IF op[t] = "get_file_content"
       THEN /\ result' = [result EXCEPT ![t] = Some(res)]
            /\ op' = op
       ELSE /\ result' = [result EXCEPT ![t] =
                            Some(IF res.ok THEN Ok(parse_pointer(res.val)) ELSE res)]
            /\ op' = [op EXCEPT ![t] = "get_file_info"]

\* `if let Ok(bytes) = self.http_get_bytes(&metadata.download_url)`:
\* the bytes are returned, any failure goes on at get_file_content_legacy;
\* body is the content the server sends
ContentHttpGet(t, ans, body) ==
    /\ pc[t] = "content_http"
    /\ LET url == Unwrap(metadata[t]).download_url
           h == [hist[t] EXCEPT !.attempts = Append(@, "TryHttp"),
                                !.http_gets = @ + 1,
                                !.http_url = Some(url),
                                !.http_request =
                                    build_request(req[t].token, url, Concat(ENDPOINT))]
       IN IF ans.sent /\ is_success(ans.status) /\ ans.body_ok
          THEN ContentReturn(t, Ok(body), [h EXCEPT !.succeeded = Append(@, "TryHttp")])
          ELSE /\ Continue(t, "content_legacy", 1, None, None, <<>>, None, h)
               /\ UNCHANGED <<result, op>>
    /\ UNCHANGED <<now, ticks, env, started, TOKEN_CACHE, lock, files, req, batch>>

\* get_file_content_legacy: one turn of `for url in urls_to_try`, and the
\* NetworkError after the last turn
ContentLegacyGet(t, ans, body) ==
    /\ pc[t] = "content_legacy"
    /\ LET urls == build_resolve_urls(ENDPOINT, req[t].repo_info, req[t].path,
                                      req[t].resolved_revision)
           url == urls[cand[t]]
           h == [hist[t] EXCEPT
                   !.attempts = IF cand[t] = 1 THEN Append(@, "Legacy") ELSE @,
                   !.legacy_gets = @ + 1]
           le == IF ~ans.sent
                 THEN "Request error for " \o url \o ": " \o TransportErrorText(url)
                 ELSE IF ~is_success(ans.status)
                 THEN "HTTP error for " \o url \o ": "
                         \o StatusErrorText(ans.status, url)
                 ELSE "Failed to read response body: " \o BodyErrorText(url)
       IN IF ans.sent /\ is_success(ans.status) /\ ans.body_ok
          THEN ContentReturn(t, Ok(body), [h EXCEPT !.succeeded = Append(@, "Legacy")])
          ELSE IF cand[t] < Len(urls)
          THEN /\ Continue(t, "content_legacy", cand[t] + 1, Some(le), None, <<>>,
                           None, h)
               /\ UNCHANGED <<result, op>>
          ELSE ContentReturn(t,
                  Err(XetError("NetworkError",
                        "Could not retrieve file. Tried multiple endpoints. Last error: "
                        \o le)), h)
    /\ UNCHANGED <<now, ticks, env, started, TOKEN_CACHE, lock, files, req, batch>>

\* The content of a file: whether it is UTF-8, the XetFileInfo it is as
\* JSON if it is one, and its lines
Body(utf8, json, lines) == [utf8 |-> utf8, json |-> json, lines |-> lines]

BinaryBody == Body(FALSE, None, <<>>)

ContentRequests ==
    {Request(<<"Datasets", "o", "r">>, <<"dir", "f.txt">>, "", Some(<<"v1">>)),
     Request(<<"">>, <<"f.bin">>, "", None),
     Request(<<"o">>, <<"f.bin">>, "", None),
     Request(<<"o", "r">>, <<"">>, "", None),
     Request(<<"o", "r">>, <<"f.bin">>, "", None)}

NextContent ==
    \/ \E r \in ContentRequests, accepted \in BOOLEAN, client_ok \in BOOLEAN :
          CallGetFileContent(1, r, accepted, client_ok)
    \/ \E ans \in CoarseMetaAnswers : MetaHead(1, ans)
    \/ \E ans \in CoarseMetaAnswers : MetaGet(1, ans)
    \/ \E ans \in ByteAnswers : ContentHttpGet(1, ans, BinaryBody)
    \/ \E ans \in ByteAnswers : ContentLegacyGet(1, ans, BinaryBody)

SpecContent == Init /\ [][NextContent]_vars

\* C20 as stated: get_file_content runs the strategies of download_file in
\* the same order, so that metadata carrying xet_file_data is followed by
\* TryCas.
C20_Original ==
    (op[1] = "get_file_content" /\ hist[1].resolved = "xet"
     /\ Len(hist[1].attempts) >= 2)
    => hist[1].attempts[2] = "TryCas"

\* C20: get_file_content resolves the metadata first; when resolution
\* succeeded, with or without xet_file_data, it goes on with the
\* HTTP-direct fetch of download_url, and when resolution or that fetch
\* failed with the Legacy requests; it never looks up a CAS token nor runs
\* the transfer engine; the bytes are returned in memory and no file is
\* written.
C20_ContentSkipsCas ==
    (op[1] = "get_file_content")
    => /\ pc[1] \in {"idle", "meta_head", "meta_get", "content_http", "content_legacy"}
       /\ hist[1].attempts \in
             {<<>>, <<"ResolveMetadata">>, <<"ResolveMetadata", "TryHttp">>,
              <<"ResolveMetadata", "TryHttp", "Legacy">>,
              <<"ResolveMetadata", "Legacy">>}
       /\ hist[1].transfers = 0 /\ hist[1].lookups = 0 /\ hist[1].refresh_reqs = 0
       /\ hist[1].http_gets <= 1
       /\ files = {}
       /\ (hist[1].resolved \in {"xet", "plain"}) =>
             /\ pc[1] # "content_http" => Len(hist[1].attempts) >= 2
             /\ Len(hist[1].attempts) >= 2 => hist[1].attempts[2] = "TryHttp"
             /\ hist[1].http_gets = 1 =>
                   \E i \in 1..Len(UrlsOf(req[1])) :
                      hist[1].http_url = Some(UrlsOf(req[1])[i])
       /\ (hist[1].resolved = "failed" /\ Len(hist[1].attempts) >= 2) =>
             hist[1].attempts[2] = "Legacy"
       /\ hist[1].succeeded # <<>> =>
             /\ pc[1] = "idle" /\ IsSome(result[1]) /\ Unwrap(result[1]).ok
             /\ hist[1].succeeded = <<hist[1].attempts[Len(hist[1].attempts)]>>
       /\ (pc[1] = "idle" /\ IsSome(result[1]) /\ Unwrap(result[1]).ok) =>
             hist[1].succeeded # <<>>

\* metadata with xet_file_data, and the bytes came from the HTTP-direct
\* fetch
C20_Witness ==
    /\ op[1] = "get_file_content" /\ pc[1] = "idle"
    /\ hist[1].resolved = "xet"
    /\ hist[1].attempts = <<"ResolveMetadata", "TryHttp">>
    /\ IsSome(result[1]) /\ Unwrap(result[1]).ok

(***************************************************************************)
(* with_token (lib.rs), and the calls that check their parameters: one     *)
(* caller thread issuing with_token, download_file and get_file_content    *)
(* with parameters of every kind                                           *)
(***************************************************************************)
\* XetClient::with_token(token): the token is checked, then
\* apply_performance_defaults runs and the runtime and the HTTP client are
\* built; the result is the client or the first error
with_token(token, runtime_ok, http_ok) ==
    IF token = ""
    THEN Err(XetError("InvalidInput", "Token cannot be empty"))
    ELSE IF ~runtime_ok
    THEN Err(XetError("IoError", "Failed to create tokio runtime"))
    ELSE IF ~http_ok
    THEN Err(XetError("NetworkError", "Failed to create HTTP client"))
    ELSE Ok([endpoint |-> ENDPOINT, token |-> Some(token)])

CallWithToken(t, token, runtime_ok, http_ok) ==
    /\ pc[t] = "idle"
    /\ started < MaxOps
    /\ started' = started + 1
    /\ op' = [op EXCEPT ![t] = "with_token"]
    /\ req' = [req EXCEPT ![t] = NoRequest]
    /\ Continue(t, "idle", 0, None, None, <<>>, None, NoHist)
    /\ result' = [result EXCEPT ![t] = Some(with_token(token, runtime_ok, http_ok))]
    /\ env' = IF token = "" THEN env ELSE apply_performance_defaults(env)
    /\ UNCHANGED <<now, ticks, TOKEN_CACHE, lock, files, batch>>

TokenArguments == {"", "hf_token_a"}

NextInput ==
    \/ \E token \in TokenArguments, runtime_ok \in BOOLEAN, http_ok \in BOOLEAN :
          CallWithToken(1, token, runtime_ok, http_ok)
    \/ \E r \in DirectRequests, accepted \in BOOLEAN, client_ok \in BOOLEAN :
          CallDownloadFile(1, r, accepted, client_ok)
    \/ \E r \in ContentRequests, accepted \in BOOLEAN, client_ok \in BOOLEAN :
          CallGetFileContent(1, r, accepted, client_ok)
    \/ \E ans \in CoarseMetaAnswers : MetaHead(1, ans)
    \/ \E ans \in CoarseMetaAnswers : MetaGet(1, ans)

SpecInput == Init /\ [][NextInput]_vars

\* The call has returned InvalidInput in the step that entered it, no
\* request sent, no file or directory made, the token cache as it was
RejectedAtOnce ==
    /\ pc'[1] = "idle"
    /\ IsSome(result'[1]) /\ ~Unwrap(result'[1]).ok
    /\ Unwrap(result'[1]).err.kind = "InvalidInput"
    /\ hist'[1].heads = 0 /\ hist'[1].gets = 0 /\ hist'[1].legacy_gets = 0
    /\ hist'[1].http_gets = 0 /\ hist'[1].refresh_reqs = 0 /\ hist'[1].transfers = 0
    /\ hist'[1].lookups = 0 /\ hist'[1].inserts = 0
    /\ files' = files
    /\ TOKEN_CACHE' = TOKEN_CACHE

\* C21: download_file with an empty repo, path or destination,
\* get_file_content with an empty repo or path, and with_token with an
\* empty token return InvalidInput in the step of the call: no request has
\* been sent, no file or directory made, and the token cache is unchanged.
C21_EmptyParameterRejectedAtOnce ==
    [][ /\ \A r \in DirectRequests, accepted \in BOOLEAN, client_ok \in BOOLEAN :
             (/\ is_empty(r.repo) \/ is_empty(r.path) \/ r.destination = ""
              /\ CallDownloadFile(1, r, accepted, client_ok))
             => RejectedAtOnce
        /\ \A r \in ContentRequests, accepted \in BOOLEAN, client_ok \in BOOLEAN :
             (/\ is_empty(r.repo) \/ is_empty(r.path)
              /\ CallGetFileContent(1, r, accepted, client_ok))
             => RejectedAtOnce
        /\ \A runtime_ok \in BOOLEAN, http_ok \in BOOLEAN :
             CallWithToken(1, "", runtime_ok, http_ok) => RejectedAtOnce
      ]_vars

\* download_file was called with an empty destination and has returned
C21_Witness ==
    /\ op[1] = "download_file" /\ pc[1] = "idle" /\ started = 1
    /\ IsSome(result[1]) /\ ~Unwrap(result[1]).ok
    /\ Unwrap(result[1]).err = XetError("InvalidInput", "Destination cannot be empty")
    /\ hist[1] = NoHist /\ files = {} /\ TOKEN_CACHE = <<>>

(***************************************************************************)
(* get_file_info (lib.rs): the hash and size of a file from the headers of *)
(* metadata resolution, or from the file read as a pointer file            *)
(***************************************************************************)
\* get_file_info(repo, path, revision) up to the first request of
\* fetch_file_metadata: parse_repo, and the metadata client
CallGetFileInfo(t, r, accepted, client_ok) ==
    LET checked == parse_repo(r.repo, accepted)
        client_err == Err(XetError("NetworkError", "Failed to create metadata client"))
        h == [NoHist EXCEPT !.attempts = <<"ResolveMetadata">>,
                            !.resolved = IF client_ok THEN "" ELSE "failed"]
    IN /\ pc[t] = "idle"
       /\ started < MaxOps
       /\ started' = started + 1
       /\ req' = [req EXCEPT ![t] =
                    [NoRequest EXCEPT
                        !.repo = r.repo, !.path = r.path, !.revision = r.revision,
                        !.repo_info = IF checked.ok THEN Unwrap(checked.val) ELSE @,
                        !.resolved_revision = IF IsSome(r.revision)
                                              THEN Unwrap(r.revision) ELSE <<"main">>,
                        !.endpoint = ENDPOINT]]
       /\ IF ~checked.ok
          THEN InfoReturn(t, Err(checked.err), NoHist)
          ELSE IF client_ok
          THEN /\ Continue(t, "meta_head", 1, None, None, <<>>, None, h)
               /\ result' = [result EXCEPT ![t] = None]
               /\ op' = [op EXCEPT ![t] = "get_file_info"]
          ELSE InfoAfterMetadata(t, client_err, r.path, FALSE, h)
       /\ UNCHANGED <<now, ticks, env, TOKEN_CACHE, lock, files, batch>>

PointerLine(key, text, number) == [key |-> key, text |-> text, number |-> number]

\* The contents a server sends for a file read as a pointer file
PointerBodies ==
    {BinaryBody,
     Body(TRUE, Some(XetFileInfo("feed01", 7)), <<>>),
     Body(TRUE, None, <<PointerLine("version", "https://git-lfs.github.com/spec/v1", -1),
                        PointerLine("oid", "abcd1234", -1),
                        PointerLine("size", "42", 42)>>),
     Body(TRUE, None, <<PointerLine("oid", "abcd1234", -1)>>),
     Body(TRUE, None, <<PointerLine("size", "42", 42)>>),
     Body(TRUE, None, <<PointerLine("oid", "abcd1234", -1),
                        PointerLine("size", "many", -1)>>),
     Body(TRUE, None, <<PointerLine("text", "hello", -1)>>)}

InfoRequests ==
    {Request(<<"o", "r">>, <<"f.txt">>, "", None),
     Request(<<"o", "r">>, <<"f.bin">>, "", None),
     Request(<<"o", "r">>, <<"F.BIN">>, "", None),
     Request(<<"o", "r">>, <<"dir", "f.Pt">>, "", None),
     Request(<<"o", "r">>, <<"">>, "", None),
     Request(<<"">>, <<"f.txt">>, "", None),
     Request(<<"o">>, <<"f.txt">>, "", None)}

NextInfo ==
    \/ \E r \in InfoRequests, accepted \in BOOLEAN, client_ok \in BOOLEAN :
          CallGetFileInfo(1, r, accepted, client_ok)
    \/ \E ans \in CoarseMetaAnswers : MetaHead(1, ans)
    \/ \E ans \in CoarseMetaAnswers : MetaGet(1, ans)
    \/ \E ans \in ByteAnswers, body \in PointerBodies : ContentHttpGet(1, ans, body)
    \/ \E ans \in ByteAnswers, body \in PointerBodies : ContentLegacyGet(1, ans, body)

SpecInfo == Init /\ [][NextInfo]_vars

\* C22: get_file_info returns InvalidInput whenever repo or path is empty,
\* whatever the servers answer.
C22_EmptyParameterIsInvalidInput ==
    (/\ op[1] = "get_file_info" /\ pc[1] = "idle"
     /\ is_empty(req[1].repo) \/ is_empty(req[1].path))
    => /\ IsSome(result[1]) /\ ~Unwrap(result[1]).ok
       /\ Unwrap(result[1]).err.kind = "InvalidInput"

(***************************************************************************)
(* get_repo_info and list_files (lib.rs), and the five public operations   *)
(* that begin with parse_repo, called with repository identifiers of one,  *)
(* two and three segments                                                  *)
(***************************************************************************)
\* get_repo_info(repo): parse_repo, and the RepoInfo wrapped
CallGetRepoInfo(t, repo, accepted) ==
    LET parsed == parse_repo(repo, accepted) IN
    /\ pc[t] = "idle"
    /\ started < MaxOps
    /\ started' = started + 1
    /\ op' = [op EXCEPT ![t] = "get_repo_info"]
    /\ req' = [req EXCEPT ![t] =
                 [NoRequest EXCEPT !.repo = repo,
                                   !.repo_info = IF parsed.ok THEN Unwrap(parsed.val) ELSE @]]
    /\ Continue(t, "idle", 0, None, None, <<>>, None, NoHist)
    /\ result' = [result EXCEPT ![t] =
                    Some(IF parsed.ok THEN Ok(Unwrap(parsed.val)) ELSE Err(parsed.err))]
    /\ UNCHANGED <<now, ticks, env, TOKEN_CACHE, lock, files, batch>>

\* A conversion of reqwest::Error that does not look at the status
from_reqwest_error_network_only(status) == XetError("NetworkError", "Network error")

\* impl From<reqwest::Error> for XetError: an error that carries a status
\* is AuthError for 401 and 403, InvalidInput for the other client errors
\* and NetworkError for the rest; an error without a status is NetworkError
from_reqwest_error(status) ==
    IF IsSome(status)
    THEN LET st == Unwrap(status) IN
         IF st = 401 \/ st = 403
         THEN XetError("AuthError", "Authentication failed")
         ELSE IF is_client_error(st)
         THEN XetError("InvalidInput", "Client error")
         ELSE XetError("NetworkError", "HTTP error")
    ELSE XetError("NetworkError", "Network error")

\* impl From<serde_json::Error> for XetError
from_serde_json_error == XetError("OperationFailed", "JSON parsing error")

\* The checks at the head of list_files and parse_repo
validate_list(r, accepted) ==
    IF is_empty(r.repo)
    THEN Err(XetError("InvalidInput", "Repository cannot be empty"))
    ELSE parse_repo(r.repo, accepted)

\* list_files(repo, path, revision) up to the GET of the tree API
CallListFiles(t, r, accepted) ==
    LET checked == validate_list(r, accepted) IN
    /\ pc[t] = "idle"
    /\ started < MaxOps
    /\ started' = started + 1
    /\ op' = [op EXCEPT ![t] = "list_files"]
    /\ req' = [req EXCEPT ![t] =
                 [NoRequest EXCEPT
                     !.repo = r.repo, !.path = r.path, !.revision = r.revision,
                     !.repo_info = IF checked.ok THEN Unwrap(checked.val) ELSE @,
                     !.resolved_revision = IF IsSome(r.revision)
                                           THEN Unwrap(r.revision) ELSE <<"main">>,
                     !.endpoint = ENDPOINT]]
    /\ IF checked.ok
       THEN /\ Continue(t, "tree_get", 0, None, None, <<>>, None, NoHist)
            /\ result' = [result EXCEPT ![t] = None]
       ELSE /\ Continue(t, "idle", 0, None, None, <<>>, None, NoHist)
            /\ result' = [result EXCEPT ![t] = Some(Err(checked.err))]
    /\ UNCHANGED <<now, ticks, env, TOKEN_CACHE, lock, files, batch>>

TreeEntry(entry_type, path) == [entry_type |-> entry_type, path |-> path]

\* The body of an answer of the tree API: an object with an optional tree
\* field, a bare array of entries, or text that is neither
TreeBody(shape, entries) == [shape |-> shape, entries |-> entries]

TreeBodies ==
    {TreeBody("object", Some(<<TreeEntry("file", "a.txt"), TreeEntry("directory", "dir")>>)),
     TreeBody("object", None),
     TreeBody("array", Some(<<TreeEntry("directory", "dir"), TreeEntry("file", "dir/b.txt")>>)),
     TreeBody("invalid", None)}

\* entries.into_iter().filter(entry_type == "file").map(path).collect()
RECURSIVE file_paths(_)
file_paths(entries) ==
    IF entries = <<>> THEN <<>>
    ELSE LET rest == file_paths(Tail(entries)) IN
         IF Head(entries).entry_type = "file" THEN <<Head(entries).path>> \o rest ELSE rest

\* The body parsed as TreeResponse, then as Vec<TreeEntry>
parse_tree(body) ==
    IF body.shape = "object"
    THEN Ok(IF IsSome(body.entries) THEN Unwrap(body.entries) ELSE <<>>)
    ELSE IF body.shape = "array"
    THEN Ok(Unwrap(body.entries))
    ELSE Err(from_serde_json_error)

\* send, error_for_status and text, each converted by XetError::from
list_files_response(ans, body) ==
    IF ~ans.sent THEN Err(from_reqwest_error(None))
    ELSE IF ~is_success(ans.status) THEN Err(from_reqwest_error(Some(ans.status)))
    ELSE IF ~ans.body_ok THEN Err(from_reqwest_error(None))
    ELSE LET parsed == parse_tree(body) IN
         IF parsed.ok THEN Ok(file_paths(parsed.val)) ELSE parsed

\* The GET of the tree API is answered and list_files returns
ListFilesAnswer(t, ans, body) ==
    /\ pc[t] = "tree_get"
    /\ Continue(t, "idle", 0, None, None, <<>>, None,
                [hist[t] EXCEPT !.http_gets = @ + 1,
                                !.response = Some([verb |-> "GET", status |-> ans.status,
                                                   sent |-> ans.sent])])
    /\ result' = [result EXCEPT ![t] = Some(list_files_response(ans, body))]
    /\ UNCHANGED <<now, ticks, env, started, TOKEN_CACHE, lock, files, op, req, batch>>

TreeAnswers == ByteAnswers \cup {ByteAnswer(TRUE, 403, FALSE)}

RepoIds == {<<"">>, <<"o">>, <<"o", "r">>, <<"datasets", "o", "r">>}

RepoRequests == {Request(repo, <<"f.txt">>, "out/f.txt", None) : repo \in RepoIds}

NextRepo ==
    \/ \E repo \in RepoIds, accepted \in BOOLEAN : CallGetRepoInfo(1, repo, accepted)
    \/ \E r \in RepoRequests, accepted \in BOOLEAN : CallListFiles(1, r, accepted)
    \/ \E r \in RepoRequests, accepted \in BOOLEAN, client_ok \in BOOLEAN :
          CallDownloadFile(1, r, accepted, client_ok)
    \/ \E r \in RepoRequests, accepted \in BOOLEAN, client_ok \in BOOLEAN :
          CallGetFileContent(1, r, accepted, client_ok)
    \/ \E r \in RepoRequests, accepted \in BOOLEAN, client_ok \in BOOLEAN :
          CallGetFileInfo(1, r, accepted, client_ok)
    \/ \E ans \in TreeAnswers, body \in TreeBodies : ListFilesAnswer(1, ans, body)
    \/ \E ans \in CoarseMetaAnswers : MetaHead(1, ans)
    \/ \E ans \in CoarseMetaAnswers : MetaGet(1, ans)

SpecRepo == Init /\ [][NextRepo]_vars

\* The call has returned InvalidInput in the step that entered it and has
\* produced no RepoInfo: the request of the thread holds none, or is the
\* one an earlier call left
RepoRejected ==
    /\ pc'[1] = "idle"
    /\ IsSome(result'[1]) /\ ~Unwrap(result'[1]).ok
    /\ Unwrap(result'[1]).err.kind = "InvalidInput"
    /\ req'[1].repo_info = NoRequest.repo_info \/ req'[1] = req[1]
    /\ hist'[1] = NoHist

\* C23: for every repository identifier with fewer than two segments
\* between '/', get_repo_info, download_file, get_file_content,
\* get_file_info and list_files fail with InvalidInput in the step of the
\* call, and no RepoInfo is produced.
C23_ShortRepoIdIsInvalidInput ==
    [][ \A r \in RepoRequests, accepted \in BOOLEAN, client_ok \in BOOLEAN :
          (/\ Len(r.repo) < 2
           /\ \/ CallGetRepoInfo(1, r.repo, accepted)
              \/ CallListFiles(1, r, accepted)
              \/ CallDownloadFile(1, r, accepted, client_ok)
              \/ CallGetFileContent(1, r, accepted, client_ok)
              \/ CallGetFileInfo(1, r, accepted, client_ok))
          => RepoRejected
      ]_vars

\* get_repo_info("o") has returned the InvalidInput of parse_repo
C23_Witness ==
    /\ op[1] = "get_repo_info" /\ pc[1] = "idle" /\ started = 1
    /\ req[1].repo = <<"o">>
    /\ IsSome(result[1]) /\ ~Unwrap(result[1]).ok
    /\ Unwrap(result[1]).err.kind = "InvalidInput"
    /\ req[1].repo_info = NoRequest.repo_info

(***************************************************************************)
(* The error kinds of failed requests: one caller thread issuing           *)
(* list_files, get_file_content, download_file and get_cached_cas_jwt for  *)
(* a well-formed repository, the servers answering in every way they can   *)
(***************************************************************************)
StatusRequests == {Request(<<"o", "r">>, <<"f.bin">>, "out/f.bin", None)}

NextStatus ==
    \/ \E r \in StatusRequests : CallListFiles(1, r, TRUE)
    \/ \E ans \in TreeAnswers, body \in TreeBodies : ListFilesAnswer(1, ans, body)
    \/ \E r \in StatusRequests : CallGetFileContent(1, r, TRUE, TRUE)
    \/ \E ans \in ByteAnswers : ContentHttpGet(1, ans, BinaryBody)
    \/ \E ans \in ByteAnswers : ContentLegacyGet(1, ans, BinaryBody)
    \/ \E r \in StatusRequests : CallDownloadFile(1, r, TRUE, TRUE)
    \/ \E ans \in CoarseMetaAnswers : MetaHead(1, ans)
    \/ \E ans \in CoarseMetaAnswers : MetaGet(1, ans)
    \/ \E mkdir_ok \in BOOLEAN : XetPrepare(1, mkdir_ok)
    \/ \E r \in Routes : CallGetCachedCasJwt(1, r)
    \/ GetCachedTokenLock(1)
    \/ GetCachedToken(1)
    \/ \E ans \in RefreshAnswers(route[1], Serials, CoarseExps(now)) :
          CasRefreshAnswer(1, ans)
    \/ CacheTokenLock(1)
    \/ CacheToken(1)
    \/ \E engine_ok \in BOOLEAN : XetExecute(1, engine_ok)
    \/ \E o \in ByteOutcomes : HttpGet(1, o[1], o[2])
    \/ \E o \in ByteOutcomes : LegacyGet(1, o[1], o[2])

SpecStatus == Init /\ [][NextStatus]_vars

\* The request got no response, or a response whose status is not a success
Failing(ans) == ~ans.sent \/ ~is_success(ans.status)

\* The request was answered with 401 or 403
Denied(ans) == ans.sent /\ ans.status \in {401, 403}

\* The call of thread 1 returns an error of the given kind in this step
ReturnsKind(kind) ==
    /\ pc'[1] = "idle"
    /\ IsSome(result'[1]) /\ ~Unwrap(result'[1]).ok
    /\ Unwrap(result'[1]).err.kind = kind

\* The call of thread 1 returns in this step
Returns == pc'[1] = "idle" /\ IsSome(result'[1])

PlainText(body) == body.utf8 /\ ~IsSome(body.json)

OidLines(body) == {i \in 1..Len(body.lines) : body.lines[i].key = "oid"}
SizeLines(body) == {i \in 1..Len(body.lines) : body.lines[i].key = "size"}

\* The bytes of the file arrive in this step, by either request of
\* get_file_content, while get_file_info waits for them
PointerArrives(ans, body) ==
    /\ op[1] = "get_file_info.get_file_content"
    /\ ans.sent /\ is_success(ans.status) /\ ans.body_ok
    /\ ContentHttpGet(1, ans, body) \/ ContentLegacyGet(1, ans, body)

\* C25: when the content get_file_info reads is not JSON and has a line
\* "oid <hash>" and a line "size <bytes>", the call returns the file info
\* with exactly that hash and that size; when the content lacks either line
\* or its size is not an unsigned integer, the call returns None.
C25_PointerFileParsing ==
    [][ \A ans \in ByteAnswers, body \in PointerBodies :
          (PlainText(body) /\ PointerArrives(ans, body))
          => /\ pc'[1] = "idle" /\ op'[1] = "get_file_info"
             /\ IsSome(result'[1]) /\ Unwrap(result'[1]).ok
             /\ \A i \in OidLines(body), j \in SizeLines(body) :
                   body.lines[j].number >= 0
                   => Unwrap(result'[1]).val =
                         Some(XetFileInfo(body.lines[i].text, body.lines[j].number))
             /\ (\/ OidLines(body) = {}
                 \/ SizeLines(body) = {}
                 \/ \E j \in SizeLines(body) : body.lines[j].number < 0)
                => Unwrap(result'[1]).val = None
      ]_vars

\* get_file_info has read a pointer file by the request of the legacy path
\* and has returned the hash abcd1234 and the size 42
C25_Witness ==
    /\ op[1] = "get_file_info" /\ pc[1] = "idle"
    /\ hist[1].legacy_gets >= 1
    /\ hist[1].succeeded = <<"Legacy">>
    /\ result[1] = Some(Ok(Some(XetFileInfo("abcd1234", 42))))

(***************************************************************************)
(* cache_token and get_cached_token called directly, as the test           *)
(* token_cache_round_trip does, with tokens of every kind of expiry        *)
(***************************************************************************)
\* cache_token(key, token): the lock is taken, the entry inserted, the lock
\* released
CallCacheToken(t, key, token) ==
    /\ pc[t] = "idle"
    /\ lock = 0
    /\ started < MaxCalls
    /\ started' = started + 1
    /\ op' = [op EXCEPT ![t] = "cache_token"]
    /\ TOKEN_CACHE' = cache_token(TOKEN_CACHE, key, token, now)
    /\ route' = [route EXCEPT ![t] = key]
    /\ result' = [result EXCEPT ![t] = None]
    /\ hist' = [hist EXCEPT ![t] = [NoHist EXCEPT !.inserts = 1]]
    /\ UNCHANGED <<now, ticks, env, lock, files, pc, req, cand, last_error, metadata,
                   jwt, batch>>

\* get_cached_token(key): the clone of the entry, if any
CallGetCachedToken(t, key) ==
    /\ pc[t] = "idle"
    /\ lock = 0
    /\ started < MaxCalls
    /\ started' = started + 1
    /\ op' = [op EXCEPT ![t] = "get_cached_token"]
    /\ route' = [route EXCEPT ![t] = key]
    /\ result' = [result EXCEPT ![t] = Some(get_cached_token(TOKEN_CACHE, key))]
    /\ hist' = [hist EXCEPT ![t] = [NoHist EXCEPT !.lookups = 1]]
    /\ UNCHANGED <<now, ticks, env, TOKEN_CACHE, lock, files, pc, req, cand, last_error,
                   metadata, jwt, batch>>

\* Expiry times (unix seconds) of the tokens handed to cache_token at tick
\* t: expired, expiring now, inside the safety window, at its edge, beyond
\* it, u64::MAX / 2 and u64::MAX
ExpiryExps(t) ==
    {UnixSecs(t) - 1, UnixSecs(t), UnixSecs(t) + 30,
     UnixSecs(t) + TOKEN_CACHE_SAFETY_WINDOW, UnixSecs(t) + TOKEN_CACHE_SAFETY_WINDOW + 1,
     UnixSecs(t) + 120, U64Max \div 2, U64Max}

CasJwtInfo(cas_url, access_token, exp) ==
    [cas_url |-> cas_url, access_token |-> access_token, exp |-> exp]

ExpiryTokens(t) == {CasJwtInfo(CAS_URL, "secret", e) : e \in ExpiryExps(t)}

ExpirySteps == {1, TOKEN_CACHE_SAFETY_WINDOW * TicksPerSec}

NextExpiry ==
    \/ \E key \in Routes, token \in ExpiryTokens(now) : CallCacheToken(1, key, token)
    \/ \E key \in Routes : CallGetCachedToken(1, key)
    \/ \E d \in ExpirySteps : Tick(d)

SpecExpiry == Init /\ [][NextExpiry]_vars

\* The ttl of a token with expiry exp can be added to the Instant of tick t
Fits(exp, t) == (t \div TicksPerSec) + saturating_sub(exp, UnixSecs(t)) <= I64Max

\* cache_token(key, token) in this step, followed at once by
\* get_cached_token(key), gives an entry that is valid and holds the
\* access token of token
RoundTrip(key, token) ==
    LET cached == get_cached_token(TOKEN_CACHE', key) IN
    /\ IsSome(cached)
    /\ is_valid(Unwrap(cached), now')
    /\ Unwrap(cached).value.access_token = token.access_token

\* C26 as stated: for every token whose exp is more than 60 seconds in the
\* future, cache_token followed immediately by get_cached_token returns an
\* entry that is valid and holds the token's access token.
C26_Original ==
    [][ \A key \in Routes, token \in ExpiryTokens(now) :
          (/\ token.exp > UnixSecs(now) + TOKEN_CACHE_SAFETY_WINDOW
           /\ CallCacheToken(1, key, token))
          => RoundTrip(key, token)
      ]_vars

\* C26, amended: for every token whose exp is more than 60 seconds in the
\* future and whose ttl can be added to the monotonic instant, u64::MAX / 2
\* included, cache_token followed immediately by get_cached_token returns
\* an entry that is valid and holds the token's access token; a token whose
\* ttl cannot be added (u64::MAX) is stored with its access token but its
\* entry is not valid.
C26_RoundTripWhenTtlFits ==
    [][ \A key \in Routes, token \in ExpiryTokens(now) :
          (/\ token.exp > UnixSecs(now) + TOKEN_CACHE_SAFETY_WINDOW
           /\ CallCacheToken(1, key, token))
          => LET cached == get_cached_token(TOKEN_CACHE', key) IN
             /\ Fits(token.exp, now) => RoundTrip(key, token)
             /\ ~Fits(token.exp, now) =>
                   /\ IsSome(cached)
                   /\ Unwrap(cached).value.access_token = token.access_token
                   /\ ~is_valid(Unwrap(cached), now')
      ]_vars

\* A token with exp = u64::MAX / 2 has just been cached and its entry is valid
C26_Witness ==
    /\ op[1] = "cache_token"
    /\ route[1] \in DOMAIN TOKEN_CACHE
    /\ LET e == TOKEN_CACHE[route[1]] IN
         /\ e.value.exp = U64Max \div 2
         /\ e.value.access_token = "secret"
         /\ e.cached_at = now
         /\ is_valid(e, now)

\* C27 as stated: expires_at is now + (exp - now) - 60 s when exp is more
\* than 60 seconds ahead, and is the moment of caching when the token is
\* expired or within 60 seconds of expiry.
C27_Original ==
    \A k \in DOMAIN TOKEN_CACHE :
        LET e == TOKEN_CACHE[k]
            c == e.cached_at
            T == UnixSecs(c)
        IN IF e.value.exp > T + TOKEN_CACHE_SAFETY_WINDOW
           THEN e.expires_at = c + (e.value.exp - T - TOKEN_CACHE_SAFETY_WINDOW) * TicksPerSec
           ELSE e.expires_at = c

\* C27, amended: with c the moment of caching, T the wall clock at c in
\* whole seconds and ttl = max(exp - T, 0), expires_at is c + ttl - 60 s
\* whenever ttl can be added to c: later than c when exp is more than 60
\* seconds ahead, c itself when exp is exactly 60 seconds ahead, and
\* earlier than c, by 60 s - ttl, when the token is within 60 seconds of
\* expiry or expired. expires_at is c when ttl cannot be added to c.
C27_ExpiresAtIsTtlMinusWindow ==
    \A k \in DOMAIN TOKEN_CACHE :
        LET e == TOKEN_CACHE[k]
            c == e.cached_at
            T == UnixSecs(c)
            ttl == IF e.value.exp > T THEN e.value.exp - T ELSE 0
        IN IF Fits(e.value.exp, c)
           THEN /\ e.expires_at = c + (ttl - TOKEN_CACHE_SAFETY_WINDOW) * TicksPerSec
                /\ e.value.exp > T + TOKEN_CACHE_SAFETY_WINDOW <=> e.expires_at > c
                /\ e.value.exp < T + TOKEN_CACHE_SAFETY_WINDOW <=> e.expires_at < c
           ELSE e.expires_at = c

\* An expired token has been cached; its entry expires 60 seconds before
\* the moment of caching
C27_Witness ==
    /\ op[1] = "cache_token"
    /\ route[1] \in DOMAIN TOKEN_CACHE
    /\ LET e == TOKEN_CACHE[route[1]] IN
         /\ e.value.exp < UnixSecs(e.cached_at)
         /\ e.expires_at = e.cached_at - TOKEN_CACHE_SAFETY_WINDOW * TicksPerSec

(***************************************************************************)
(* The refresh request of get_cached_cas_jwt answered with statuses of     *)
(* every class: one caller of get_cached_cas_jwt after the other           *)
(***************************************************************************)
\* The answers of RefreshAnswers and answers with a status that is neither
\* a success nor an error and that the client does not follow
RefreshAnswersAnyStatus(r, serials, exps) ==
    LET tok == [route |-> r, n |-> CHOOSE n \in serials : TRUE]
        e0 == CHOOSE e \in exps : TRUE
    IN RefreshAnswers(r, serials, exps)
       \cup {RefreshAnswer(TRUE, 304, Some(CAS_URL), Some(tok), Some(e0)),
             RefreshAnswer(TRUE, 304, None, Some(tok), Some(e0))}

NextRefresh ==
    \/ \E r \in Routes : CallGetCachedCasJwt(1, r)
    \/ GetCachedTokenLock(1)
    \/ GetCachedToken(1)
    \/ \E ans \in RefreshAnswersAnyStatus(route[1], Serials, CoarseExps(now)) :
          CasRefreshAnswer(1, ans)
    \/ CacheTokenLock(1)
    \/ CacheToken(1)
    \/ \E d \in ExpirySteps : Tick(d)

SpecRefresh == Init /\ [][NextRefresh]_vars

\* One of the three token headers is missing from the answer, or the
\* expiration is not an unsigned integer
HeadersIncomplete(ans) ==
    \/ ~IsSome(ans.x_xet_cas_url)
    \/ ~IsSome(ans.x_xet_access_token)
    \/ ~IsSome(ans.x_xet_token_expiration)
    \/ Unwrap(ans.x_xet_token_expiration) < 0
    \/ Unwrap(ans.x_xet_token_expiration) > U64Max

\* The refresh fails in this step: NetworkError to the caller, the cache
\* as it was
RefreshFails ==
    /\ ReturnsKind("NetworkError")
    /\ TOKEN_CACHE' = TOKEN_CACHE

\* The refresh goes on to cache_token with the token made of the headers
RefreshGoesOn(ans) ==
    /\ pc'[1] = "cas_lock_insert"
    /\ jwt'[1] = Some([cas_url |-> Unwrap(ans.x_xet_cas_url),
                       access_token |-> Unwrap(ans.x_xet_access_token),
                       exp |-> Unwrap(ans.x_xet_token_expiration)])

\* cache_token stores the token of the refresh under the route and
\* get_cached_cas_jwt returns it
TokenCachedAndReturned ==
    CacheToken(1)
    => /\ pc'[1] = "idle"
       /\ result'[1] = Some(Ok(jwt[1]))
       /\ route[1] \in DOMAIN TOKEN_CACHE'
       /\ TOKEN_CACHE'[route[1]].value = Unwrap(jwt[1])

\* C28 as stated: the refresh fails with NetworkError when the response has
\* a status that is not a success or lacks one of the three headers (or
\* the expiration is not an unsigned integer); a token is returned and
\* cached only when all three are present and valid.
C28_Original ==
    [][ /\ \A ans \in RefreshAnswersAnyStatus(route[1], Serials, CoarseExps(now)) :
             CasRefreshAnswer(1, ans)
             => IF Failing(ans) \/ HeadersIncomplete(ans)
                THEN RefreshFails
                ELSE RefreshGoesOn(ans)
        /\ TokenCachedAndReturned
      ]_vars

\* C28, amended: the refresh fails with NetworkError when no response came,
\* when the status is a client or server error (4xx, 5xx), or when the
\* response lacks one of the three headers (or the expiration is not an
\* unsigned integer); nothing is cached then. With any other status and
\* the three headers present and valid the token made of them is cached
\* and returned.
C28_RefreshNeedsThreeHeaders ==
    [][ /\ \A ans \in RefreshAnswersAnyStatus(route[1], Serials, CoarseExps(now)) :
             CasRefreshAnswer(1, ans)
             => IF \/ ~ans.sent
                   \/ is_client_error(ans.status) \/ is_server_error(ans.status)
                   \/ HeadersIncomplete(ans)
                THEN RefreshFails
                ELSE RefreshGoesOn(ans)
        /\ TokenCachedAndReturned
      ]_vars

\* A refresh answered with 200 and no valid expiration has failed with
\* NetworkError and nothing is cached
C28_Witness ==
    /\ op[1] = "get_cached_cas_jwt" /\ pc[1] = "idle"
    /\ hist[1].refresh_reqs = 1 /\ hist[1].inserts = 0
    /\ result[1] = Some(Err(XetError("NetworkError", "CAS expiration header missing")))
    /\ TOKEN_CACHE = <<>>

(***************************************************************************)
(* The ranged GET of fetch_file_metadata, checked under SpecMeta           *)
(***************************************************************************)
\* The URL a 3xx answer to a request of url names in its Location header
RedirectTarget(url) == "https://cdn.example.com/blob?from=" \o url

\* The URL of the last response a client that follows redirects would
\* reach from the answer ans to a request of url
PostRedirectUrl(ans, url) ==
    IF ans.sent /\ is_redirection(ans.status) THEN RedirectTarget(url) ELSE url

\* C29: when the HEAD of a candidate produced no response and the ranged GET
\* of the same URL gave the metadata, redirects were followed and the
\* download_url of the metadata is the URL of the response after the
\* redirects.
C29_GetFollowsRedirects ==
    (/\ op[1] = "fetch_file_metadata" /\ pc[1] = "idle"
     /\ IsSome(result[1]) /\ Unwrap(result[1]).ok
     /\ IsSome(hist[1].response)
     /\ Unwrap(hist[1].response).verb = "GET")
    => LET p == Unwrap(hist[1].response) IN
       Unwrap(Unwrap(result[1]).val).download_url
           = PostRedirectUrl(p.answer, UrlsOf(req[1])[p.cand])

\* The request the step sends, when it sends one of the candidate loop
Sent == Unwrap(hist'[1].response)

\* C30: for each candidate URL the ranged GET is issued exactly when the
\* HEAD produced no response; after a HEAD that returned a status the loop
\* returns the metadata or moves to the next candidate without a GET; the
\* n-th HEAD is the one of candidate n and a GET is followed by the return
\* or by the next candidate, so that no candidate receives two HEADs or
\* two GETs.
C30_GetOnlyAfterSilentHead ==
    [][ started' = started =>
        /\ hist'[1].heads # hist[1].heads =>
              /\ pc[1] = "meta_head"
              /\ hist'[1].heads = hist[1].heads + 1 /\ hist'[1].gets = hist[1].gets
              /\ Sent.verb = "HEAD" /\ Sent.cand = cand[1]
              /\ hist'[1].heads = cand[1]
              /\ IF Sent.answer.sent
                 THEN \/ pc'[1] = "idle"
                      \/ pc'[1] = "meta_head" /\ cand'[1] = cand[1] + 1
                 ELSE pc'[1] = "meta_get" /\ cand'[1] = cand[1]
        /\ hist'[1].gets # hist[1].gets =>
              /\ pc[1] = "meta_get"
              /\ hist'[1].gets = hist[1].gets + 1 /\ hist'[1].heads = hist[1].heads
              /\ Sent.verb = "GET" /\ Sent.cand = cand[1]
              /\ Unwrap(hist[1].response).verb = "HEAD"
              /\ Unwrap(hist[1].response).cand = cand[1]
              /\ ~Unwrap(hist[1].response).answer.sent
              /\ hist'[1].gets <= hist'[1].heads
              /\ \/ pc'[1] = "idle"
                 \/ pc'[1] = "meta_head" /\ cand'[1] = cand[1] + 1
      ]_vars

\* The HEAD of the first candidate was answered with a status and the HEAD
\* of the second got no response: two HEADs and one GET, of the second
\* candidate, have been sent
C30_Witness ==
    /\ op[1] = "fetch_file_metadata"
    /\ hist[1].heads = 2 /\ hist[1].gets = 1
    /\ IsSome(hist[1].response)
    /\ Unwrap(hist[1].response).verb = "GET"
    /\ Unwrap(hist[1].response).cand = 2

(***************************************************************************)
(* The candidate URLs of metadata resolution and of the Legacy strategy:   *)
(* download_file called for repositories of the three types, the requests  *)
(* of fetch_file_metadata and of download_file_legacy answered             *)
(***************************************************************************)
UrlRepos == {<<"o", "r">>, <<"datasets", "o", "r">>, <<"spaces", "o", "r">>}

UrlRequests ==
    {Request(repo, <<"f.bin">>, "out/f.bin", None) : repo \in UrlRepos}
    \cup {Request(repo, <<"dir", "f.txt">>, "out/f.txt", Some(<<"refs", "pr", "1">>)) :
             repo \in UrlRepos}

\* Answers that make the loops go on, and one that ends resolution
UrlMetaAnswers ==
    {MetaAnswer(FALSE, 0, NoHeaders), MetaAnswer(TRUE, 404, NoHeaders),
     MetaAnswer(TRUE, 200, H_NO_SIZE)}

UrlByteOutcomes == {<<ByteAnswer(TRUE, 404, FALSE), "ok">>, <<ByteAnswer(TRUE, 200, TRUE), "ok">>}

NextUrls ==
    \/ \E r \in UrlRequests : CallDownloadFile(1, r, TRUE, TRUE)
    \/ \E ans \in UrlMetaAnswers : MetaHead(1, ans)
    \/ \E ans \in UrlMetaAnswers : MetaGet(1, ans)
    \/ \E o \in UrlByteOutcomes : LegacyGet(1, o[1], o[2])

SpecUrls == Init /\ [][NextUrls]_vars

\* A download_file call is inside one of its two candidate loops
Probing == pc[1] \in {"meta_head", "meta_get", "legacy_get"}

\* The candidate list of the Legacy strategy for the running call
LegacyUrls == build_resolve_urls(ENDPOINT, req[1].repo_info, req[1].path, req[1].resolved_revision)

\* The three shapes the claim names, for the running call
NamedShapes ==
    LET ep == Concat(ENDPOINT)
        plural == repo_type_plural(req[1].repo_info.repo_type)
        name == req[1].repo_info.full_name
        rev == encode(req[1].resolved_revision)
        path == encode(req[1].path)
        prefix == IF plural = "models" THEN "" ELSE plural \o "/"
    IN << ep \o "/" \o prefix \o name \o "/resolve/" \o rev \o "/" \o path,
          ep \o "/api/" \o plural \o "/" \o name \o "/resolve/" \o rev \o "/" \o path,
          ep \o "/api/" \o plural \o "/" \o name \o "/resolve/" \o path
             \o "?revision=" \o rev >>

\* C31 as stated: fetch_file_metadata probes exactly three candidate URLs,
\* the canonical form, the API form with the revision in the path and the
\* API form with the revision as a query parameter, in this order, and the
\* Legacy list is the same list.
C31_Original ==
    Probing =>
        /\ MetadataUrls(1) = NamedShapes
        /\ LegacyUrls = MetadataUrls(1)
        /\ cand[1] \in 1..3

\* C31, amended: fetch_file_metadata probes four candidate URLs in this
\* order: the canonical form, the API form with the revision in the path,
\* the API form with the revision as a query parameter, and the direct
\* form without a repo type prefix. The Legacy list is the first three of
\* them in the same order, for every repo type, path and revision.
C31_FourCandidatesLegacyFirstThree ==
    Probing =>
        LET urls == MetadataUrls(1) IN
        /\ Len(urls) = 4
        /\ SubSeq(urls, 1, 3) = NamedShapes
        /\ urls[4] = Concat(ENDPOINT) \o "/" \o req[1].repo_info.full_name \o "/resolve/"
                        \o encode(req[1].resolved_revision) \o "/" \o encode(req[1].path)
        /\ LegacyUrls = NamedShapes
        /\ pc[1] \in {"meta_head", "meta_get"} => cand[1] \in 1..4 /\ hist[1].heads >= cand[1] - 1
        /\ pc[1] = "legacy_get" => cand[1] \in 1..3 /\ hist[1].legacy_gets = cand[1] - 1

\* The fourth candidate of a dataset file is about to be probed, after one
\* HEAD for each of the first three
C31_Witness ==
    /\ op[1] = "download_file" /\ pc[1] = "meta_head" /\ cand[1] = 4
    /\ hist[1].heads = 3
    /\ req[1].repo_info.repo_type = "Dataset"
    /\ MetadataUrls(1)[4] = "https://huggingface.co/o/r/resolve/refs%2Fpr%2F1/dir%2Ff.txt"

\* C37: within one fetch_file_metadata call the candidate URLs are pairwise
\* distinct, so that no URL is probed more than once, for every repo type,
\* repository name, path and revision.
C37_CandidatesPairwiseDistinct ==
    Probing =>
        \A i, j \in 1..Len(MetadataUrls(1)) :
            i # j => MetadataUrls(1)[i] # MetadataUrls(1)[j]

(***************************************************************************)
(* The CAS data of a response: fetch_file_metadata called directly, the    *)
(* servers naming refresh routes of every kind in the Link header and in   *)
(* the x-xet-refresh-route header                                          *)
(***************************************************************************)
ROUTE_PATH == "/api/models/o/r/xet-read-token/main"

\* Routes on hosts other than the default one; a route whose text begins
\* with the text of HF_ENDPOINT has it as its first token
ROUTE_ALT == <<"https://alt.huggingface.co", ROUTE_PATH>>
ROUTE_LONGER == <<"https://huggingface.co", ".example.org", ROUTE_PATH>>
ROUTE_COMPANY == <<"https://huggingface.co", "mpany", ROUTE_PATH>>

\* The host of a route the servers of the model name
RouteHost(r) ==
    CASE r = ROUTE_ALT -> "alt.huggingface.co"
      [] r = ROUTE_LONGER -> "huggingface.co.example.org"
      [] r = ROUTE_COMPANY -> "huggingface.company"
      [] r[1] = "https://cas.example.org" -> "cas.example.org"
      [] OTHER -> "huggingface.co"

XetHeaders(hash, link, refresh_route) ==
    Headers(Some("c0ffee"), None, Some("etag"), Some(1234), None, None, hash, link,
            refresh_route)

XetProfiles ==
    {H_XET_LINK, H_XET_ROUTE, H_HASH_ONLY, H_XET_FOREIGN, H_PLAIN,
     XetHeaders(None, Some(<<LinkFragment("xet-auth", Some(ROUTE_1))>>), Some(ROUTE_2)),
     XetHeaders(None, None, Some(ROUTE_2)),
     XetHeaders(Some("hash5"), Some(<<LinkFragment("xet-auth", Some(ROUTE_1))>>), None),
     XetHeaders(Some("hash6"), None, Some(ROUTE_ALT)),
     XetHeaders(Some("hash7"), Some(<<LinkFragment("xet-auth", Some(ROUTE_LONGER))>>), None),
     XetHeaders(Some("hash8"), None, Some(ROUTE_COMPANY))}

XetMetaAnswers ==
    {MetaAnswer(FALSE, 0, NoHeaders)} \cup {MetaAnswer(TRUE, 200, h) : h \in XetProfiles}

NextXet ==
    \/ \E endpoint \in Endpoints :
          CallFetchFileMetadata(1, endpoint, "Model", <<"f.bin">>, TRUE)
    \/ \E ans \in XetMetaAnswers : MetaHead(1, ans)
    \/ \E ans \in XetMetaAnswers : MetaGet(1, ans)

SpecXet == Init /\ [][NextXet]_vars

\* fetch_file_metadata has returned metadata
MetadataReturned ==
    /\ pc[1] = "idle" /\ op[1] = "fetch_file_metadata"
    /\ IsSome(result[1]) /\ Unwrap(result[1]).ok
    /\ IsSome(hist[1].response)

\* The headers of the response the metadata was parsed from, and the CAS
\* data of the metadata
ParsedHeaders == Unwrap(hist[1].response).answer.headers
ParsedXetData == Unwrap(Unwrap(result[1]).val).xet_file_data

\* The Link entries with rel="xet-auth" and a <...> part
AuthEntries(hd) ==
    IF IsSome(hd.link)
    THEN {i \in 1..Len(Unwrap(hd.link)) :
            Unwrap(hd.link)[i].rel = "xet-auth" /\ IsSome(Unwrap(hd.link)[i].target)}
    ELSE {}

\* The route the response names: the one of the first Link entry with
\* rel="xet-auth", otherwise the one of the x-xet-refresh-route header
RouteNamed(hd) ==
    IF AuthEntries(hd) # {}
    THEN LET i == CHOOSE k \in AuthEntries(hd) : \A l \in AuthEntries(hd) : k <= l
         IN Unwrap(hd.link)[i].target
    ELSE hd.x_xet_refresh_route

\* C32 as stated: xet_file_data is present exactly when a refresh route is
\* found, in the Link entry with rel="xet-auth" or else in the
\* x-xet-refresh-route header.
C32_Original ==
    MetadataReturned => (IsSome(ParsedXetData) <=> IsSome(RouteNamed(ParsedHeaders)))

\* C32, amended: xet_file_data is present exactly when the response has the
\* x-xet-hash header and a refresh route is found; the route is the one of
\* the Link entry with rel="xet-auth" when there is one and otherwise the
\* one of the x-xet-refresh-route header, so the Link route is used when
\* both are present; the hash is the value of x-xet-hash.
C32_XetDataNeedsHashAndRoute ==
    MetadataReturned =>
        LET hd == ParsedHeaders
            named == RouteNamed(hd)
        IN /\ IsSome(ParsedXetData) <=> (IsSome(hd.x_xet_hash) /\ IsSome(named))
           /\ IsSome(ParsedXetData) =>
                 /\ Unwrap(ParsedXetData).file_hash = Unwrap(hd.x_xet_hash)
                 /\ Unwrap(ParsedXetData).refresh_route
                       = rewrite_refresh_route(Unwrap(named),
                                               trim_end_slashes(req[1].endpoint))

\* A response with both sources has given the route of its Link entry
C32_Witness ==
    /\ MetadataReturned
    /\ ParsedHeaders = H_XET_LINK
    /\ req[1].endpoint = HF_ENDPOINT
    /\ IsSome(ParsedXetData)
    /\ Unwrap(ParsedXetData).refresh_route = ROUTE_1
    /\ ROUTE_1 # Unwrap(H_XET_LINK.x_xet_refresh_route)

\* C33: a refresh route whose host is not huggingface.co comes out of
\* fetch_file_metadata as the server named it, for every endpoint of the
\* call: alt.huggingface.co, huggingface.co.example.org and
\* huggingface.company are such hosts.
C33_ForeignHostNeverRewritten ==
    (/\ MetadataReturned
     /\ IsSome(ParsedXetData)
     /\ RouteHost(Unwrap(RouteNamed(ParsedHeaders))) # "huggingface.co")
    => Concat(Unwrap(ParsedXetData).refresh_route)
          = Concat(Unwrap(RouteNamed(ParsedHeaders)))

(***************************************************************************)
(* The invocation of the transfer engine by download_file, checked under   *)
(* Spec                                                                    *)
(***************************************************************************)
CasPcs == {"cas_lock_get", "cas_get", "cas_await", "cas_lock_insert", "cas_insert"}

\* The TryCas attempt of the running call has ended without a token: the
\* destination could not be prepared or the refresh request failed
NoTokenObtained ==
    /\ \E i \in 1..Len(hist[1].attempts) : hist[1].attempts[i] = "TryCas"
    /\ ~hist[1].hit /\ hist[1].inserts = 0
    /\ pc[1] \notin CasPcs \cup {"xet_prepare"}

\* A step that invokes the transfer engine is the first such step of its
\* call and hands the engine one entry, made of the hash and the size of
\* the metadata and of the caller's destination, and the token
\* get_cached_cas_jwt returned for the refresh route of the metadata
EngineInvokedWithThePlan ==
    hist'[1].transfers > hist[1].transfers =>
        LET m == Unwrap(metadata[1])
            call == Unwrap(hist'[1].engine_call)
        IN /\ hist[1].transfers = 0 /\ hist'[1].transfers = 1
           /\ Len(call.plan) = 1
           /\ call.plan[1].file_info.hash = Unwrap(m.xet_file_data).file_hash
           /\ call.plan[1].file_info.file_size = m.size
           /\ call.plan[1].destination = req[1].destination
           /\ call.jwt = Unwrap(jwt[1])
           /\ call.jwt.access_token.route = Unwrap(m.xet_file_data).refresh_route
           /\ hist[1].hit \/ hist[1].inserts = 1

\* C34: in TryCas the transfer engine is invoked once, with a plan of
\* exactly one entry whose hash is metadata.xet_file_data.file_hash, whose
\* size is metadata.size and whose destination is the caller's destination,
\* and with the token obtained for metadata.xet_file_data.refresh_route; it
\* is not invoked at all when no token was obtained.
C34_OnePlanEntryWithTheRouteToken ==
    /\ [](NoTokenObtained => hist[1].transfers = 0 /\ ~IsSome(hist[1].engine_call))
    /\ [][EngineInvokedWithThePlan]_vars

\* The refresh request of a TryCas attempt has failed and the call has gone
\* on to the HTTP-direct fetch
C34_WitnessNoToken ==
    NoTokenObtained /\ hist[1].refresh_reqs = 1 /\ pc[1] = "http_get"

\* A download_file call has returned Ok after one transfer of one entry
C34_Witness ==
    /\ pc[1] = "idle" /\ op[1] = "download_file"
    /\ hist[1].succeeded = <<"TryCas">>
    /\ hist[1].transfers = 1
    /\ IsSome(hist[1].engine_call)
    /\ Len(Unwrap(hist[1].engine_call).plan) = 1
    /\ Unwrap(hist[1].engine_call).plan[1].destination = req[1].destination

(***************************************************************************)
(* get_file_info and the content of the file, checked under SpecInfo       *)
(***************************************************************************)
\* The extension of the path is one of the listed ones in some letter case
ListedBinary(path) ==
    \E e \in BinaryExtensions : to_ascii_lowercase(extension(path)) = e

\* No request of get_file_content has been made in the running call
NoContentRequest ==
    /\ hist[1].http_gets = 0 /\ hist[1].legacy_gets = 0
    /\ \A i \in 1..Len(hist[1].attempts) : hist[1].attempts[i] # "PointerFile"

\* get_file_info has returned after parse_repo accepted the repository
InfoReturned ==
    /\ op[1] = "get_file_info" /\ pc[1] = "idle" /\ IsSome(result[1])
    /\ req[1].repo_info # NoRequest.repo_info

\* The answer ans to a request of the metadata resolution of get_file_info
\* carries metadata with xet_file_data
AnswerCarriesXet(ans) ==
    LET parsed == parse_metadata_from_response(ans.headers, MetadataUrls(1)[cand[1]],
                                               trim_end_slashes(req[1].endpoint))
    IN /\ ans.sent /\ parse_attempted(ans.status)
       /\ parsed.ok /\ IsSome(Unwrap(parsed.val).xet_file_data)

InfoOfAnswer(ans) ==
    LET parsed == parse_metadata_from_response(ans.headers, MetadataUrls(1)[cand[1]],
                                               trim_end_slashes(req[1].endpoint))
    IN XetFileInfo(Unwrap(Unwrap(parsed.val).xet_file_data).file_hash,
                   Unwrap(parsed.val).size)

\* The step of get_file_info that receives metadata with xet_file_data
\* returns its hash with the size of the metadata, no request of
\* get_file_content having been made
XetMetadataIsReturned ==
    \A ans \in CoarseMetaAnswers :
        (/\ op[1] = "get_file_info"
         /\ MetaHead(1, ans) \/ MetaGet(1, ans)
         /\ AnswerCarriesXet(ans))
        => /\ pc'[1] = "idle" /\ op'[1] = "get_file_info"
           /\ result'[1] = Some(Ok(Some(InfoOfAnswer(ans))))
           /\ hist'[1].resolved = "xet"
           /\ hist'[1].attempts = <<"ResolveMetadata">>
           /\ hist'[1].http_gets = 0 /\ hist'[1].legacy_gets = 0

\* C35: get_file_info never fetches file content when the resolved
\* metadata carries xet_file_data, and returns that hash with
\* metadata.size; for a path with a listed binary extension, in any letter
\* case, and no xet metadata it returns None without any content request.
C35_NoContentFetchForXetOrBinary ==
    /\ [][XetMetadataIsReturned]_vars
    /\ [](InfoReturned /\ hist[1].resolved # "xet" /\ ListedBinary(req[1].path)
            => result[1] = Some(Ok(None)) /\ NoContentRequest)

\* get_file_info has returned None for F.BIN, whose metadata had no
\* xet_file_data, without a content request
C35_Witness ==
    /\ InfoReturned
    /\ req[1].path = <<"F.BIN">>
    /\ hist[1].resolved = "plain"
    /\ result[1] = Some(Ok(None))
    /\ NoContentRequest

(***************************************************************************)
(* The knobs of the transfer engine: a caller that has set variables of    *)
(* every kind before the first construction, then constructions and a      *)
(* download that executes a plan                                           *)
(***************************************************************************)
\* XetClient::new(): apply_performance_defaults, then the runtime and the
\* HTTP client are built; the result is the client or the first error
new_client(runtime_ok, http_ok) ==
    IF ~runtime_ok
    THEN Err(XetError("IoError", "Failed to create tokio runtime"))
    ELSE IF ~http_ok
    THEN Err(XetError("NetworkError", "Failed to create HTTP client"))
    ELSE Ok([endpoint |-> ENDPOINT, token |-> None])

CallNew(t, runtime_ok, http_ok) ==
    /\ pc[t] = "idle"
    /\ op' = [op EXCEPT ![t] = "new"]
    /\ req' = [req EXCEPT ![t] = NoRequest]
    /\ Continue(t, "idle", 0, None, None, <<>>, None, NoHist)
    /\ result' = [result EXCEPT ![t] = Some(new_client(runtime_ok, http_ok))]
    /\ env' = apply_performance_defaults(env)
    /\ UNCHANGED <<now, ticks, started, TOKEN_CACHE, lock, files, batch>>

\* The values a caller gives to the knobs
CallerValue(k) ==
    CASE k = "HF_XET_NUM_CONCURRENT_RANGE_GETS" -> "7"
      [] k = "HF_XET_HIGH_PERFORMANCE" -> "0"
      [] k = "HF_XET_MAX_CONCURRENT_DOWNLOADS" -> "2"
      [] OTHER -> "4096"

\* The other variables as a caller may have set them
SecondaryProfiles ==
    {NoEnv,
     [NoEnv EXCEPT !["XET_NUM_CONCURRENT_RANGE_GETS"] = Some("64"),
                   !["XET_HIGH_PERFORMANCE"] = Some("1"),
                   !["XET_MAX_PARALLEL_FILES"] = Some("4"),
                   !["XET_CHUNK_SIZE_MB"] = Some("2")],
     [NoEnv EXCEPT !["XET_NUM_CONCURRENT_RANGE_GETS"] = Some("many"),
                   !["XET_HIGH_PERFORMANCE"] = Some("0"),
                   !["XET_MAX_PARALLEL_FILES"] = Some("-5"),
                   !["XET_CHUNK_SIZE_MB"] = Some(NOT_UNICODE)],
     [NoEnv EXCEPT !["XET_NUM_CONCURRENT_RANGE_GETS"] = Some("-5"),
                   !["XET_HIGH_PERFORMANCE"] = Some("false")]}

CallerEnvs ==
    {[name \in EnvNames |-> IF name \in set THEN Some(CallerValue(name)) ELSE e[name]] :
        set \in SUBSET Knobs, e \in SecondaryProfiles}
    \cup {[NoEnv EXCEPT ![k] = Some(NOT_UNICODE)] : k \in Knobs}

InitEnv == InitProcess /\ env \in CallerEnvs

EnvRequest == Request(<<"o", "r">>, <<"f.bin">>, "out/f.bin", None)

NextEnv ==
    \/ \E runtime_ok \in BOOLEAN, http_ok \in BOOLEAN : CallNew(1, runtime_ok, http_ok)
    \/ \E token \in TokenArguments : CallWithToken(1, token, TRUE, TRUE)
    \/ CallDownloadFile(1, EnvRequest, TRUE, TRUE)
    \/ MetaHead(1, MetaAnswer(TRUE, 200, H_XET_LINK))
    \/ XetPrepare(1, TRUE)
    \/ GetCachedTokenLock(1)
    \/ GetCachedToken(1)
    \/ \E ans \in RefreshAnswers(route[1], Serials, CoarseExps(now)) :
          CasRefreshAnswer(1, ans)
    \/ CacheTokenLock(1)
    \/ CacheToken(1)
    \/ \E engine_ok \in BOOLEAN : XetExecute(1, engine_ok)
    \/ \E o \in ByteOutcomes : HttpGet(1, o[1], o[2])
    \/ \E o \in ByteOutcomes : LegacyGet(1, o[1], o[2])

SpecEnv == InitEnv /\ [][NextEnv]_vars

\* The step is a client construction that reaches apply_performance_defaults
Construction ==
    \/ \E runtime_ok \in BOOLEAN, http_ok \in BOOLEAN : CallNew(1, runtime_ok, http_ok)
    \/ \E token \in TokenArguments \ {""} : CallWithToken(1, token, TRUE, TRUE)

\* The step is a plan execution
PlanExecution == \E engine_ok \in BOOLEAN : XetExecute(1, engine_ok)

\* The text of variable name in e when it is set to an unsigned integer, and
\* otherwise the text d
UnsignedOr(e, name, d) ==
    IF e[name] \in {Some("0"), Some("1"), Some("2"), Some("4"), Some("64")}
    THEN Unwrap(e[name]) ELSE d

\* The fixed defaults of the knobs
FixedDefault(k, e) ==
    CASE k = "HF_XET_NUM_CONCURRENT_RANGE_GETS" -> Some("256")
      [] k = "HF_XET_HIGH_PERFORMANCE" ->
            IF e["XET_HIGH_PERFORMANCE"] = Some("0") THEN None ELSE Some("1")
      [] k = "HF_XET_MAX_CONCURRENT_DOWNLOADS" -> Some("32")
      [] OTHER -> Some("8388608")

\* The defaults of the knobs in environment e: the other variables of e
\* where they are set to a number, and the fixed defaults
DefaultIn(k, e) ==
    CASE k = "HF_XET_NUM_CONCURRENT_RANGE_GETS" ->
            IF e["XET_NUM_CONCURRENT_RANGE_GETS"] = Some("-5") THEN Some("-5")
            ELSE Some(UnsignedOr(e, "XET_NUM_CONCURRENT_RANGE_GETS", "256"))
      [] k = "HF_XET_HIGH_PERFORMANCE" ->
            IF e["XET_HIGH_PERFORMANCE"] = Some("0") THEN e[k] ELSE Some("1")
      [] k = "HF_XET_MAX_CONCURRENT_DOWNLOADS" ->
            Some(UnsignedOr(e, "XET_MAX_PARALLEL_FILES", "32"))
      [] OTHER ->
            IF e["XET_CHUNK_SIZE_MB"] = Some("2") THEN Some("2097152")
            ELSE Some("8388608")

ConstructionKnobs == {"HF_XET_NUM_CONCURRENT_RANGE_GETS", "HF_XET_HIGH_PERFORMANCE"}

\* C36 as stated: a construction or plan execution leaves a knob the caller
\* has set as it is and sets an unset knob to its default: 256, 32, 8 MiB,
\* and "1" unless XET_HIGH_PERFORMANCE is "0".
C36_Original ==
    [][/\ \A k \in Knobs : IsSome(env[k]) => env'[k] = env[k]
       /\ Construction =>
             \A k \in ConstructionKnobs :
                ~IsSome(env[k]) => env'[k] = FixedDefault(k, env)
       /\ PlanExecution =>
             \A k \in Knobs : ~IsSome(env[k]) => env'[k] = FixedDefault(k, env)]_vars

\* C36, amended: no step changes a knob that is set to valid Unicode text,
\* nor any other variable. A construction gives the range-get knob and the
\* high-performance knob, where they are unset or not valid Unicode, their
\* defaults and leaves the two other knobs alone; a plan execution does so
\* for all four knobs. The defaults are the number in
\* XET_NUM_CONCURRENT_RANGE_GETS or else 256, the number in
\* XET_MAX_PARALLEL_FILES or else 32, the number in XET_CHUNK_SIZE_MB times
\* 1 MiB or else 8 MiB, and "1" for high performance, which is left unset
\* when XET_HIGH_PERFORMANCE is "0". Every other step leaves the
\* environment as it is.
C36_CallerKnobsWin ==
    [][/\ \A k \in Knobs :
            IsSome(env[k]) /\ Unwrap(env[k]) # NOT_UNICODE => env'[k] = env[k]
       /\ \A name \in EnvNames \ Knobs : env'[name] = env[name]
       /\ Construction =>
             /\ \A k \in ConstructionKnobs :
                   ~IsSome(env[k]) \/ env[k] = Some(NOT_UNICODE)
                       => env'[k] = DefaultIn(k, env)
             /\ \A k \in Knobs \ ConstructionKnobs : env'[k] = env[k]
       /\ PlanExecution =>
             \A k \in Knobs :
                ~IsSome(env[k]) \/ env[k] = Some(NOT_UNICODE)
                    => env'[k] = DefaultIn(k, env)
       /\ ~Construction /\ ~PlanExecution => env' = env]_vars

\* A plan has been executed in a process whose caller had set the range-get
\* knob to 7 and nothing else: the knob still holds 7 and the others hold
\* their defaults
C36_Witness ==
    /\ hist[1].transfers = 1
    /\ env = [NoEnv EXCEPT !["HF_XET_NUM_CONCURRENT_RANGE_GETS"] = Some("7"),
                           !["HF_XET_HIGH_PERFORMANCE"] = Some("1"),
                           !["HF_XET_MAX_CONCURRENT_DOWNLOADS"] = Some("32"),
                           !["HF_XET_INGESTION_BLOCK_SIZE"] = Some("8388608")]

(***************************************************************************)
(* The token cache and a failing get_cached_cas_jwt, checked under         *)
(* SpecCache                                                               *)
(***************************************************************************)
\* get_cached_cas_jwt returns Err in this step
CasJwtFails ==
    /\ op[1] = "get_cached_cas_jwt"
    /\ pc[1] \in CasPcs /\ pc'[1] = "idle"
    /\ IsSome(result'[1]) /\ ~Unwrap(result'[1]).ok

\* C38: a get_cached_cas_jwt call that fails (transport error, error
\* status, missing or invalid header) leaves the token cache exactly as it
\* was: the answers of these kinds make the call fail, the failing call has
\* made no insert and its last step leaves the cache alone, and the cache
\* changes in no step but an insert; so an expired entry of the key stays
\* and the other keys are untouched.
C38_FailedRefreshLeavesCache ==
    [][/\ \A ans \in RefreshAnswers(route[1], Serials, FineExps(now)) :
            (/\ CasRefreshAnswer(1, ans)
             /\ \/ ~ans.sent
                \/ is_client_error(ans.status) \/ is_server_error(ans.status)
                \/ HeadersIncomplete(ans))
            => CasJwtFails
       /\ CasJwtFails => TOKEN_CACHE' = TOKEN_CACHE /\ hist'[1].inserts = 0
       /\ TOKEN_CACHE' # TOKEN_CACHE
            => CacheToken(1) /\ hist'[1].inserts = hist[1].inserts + 1]_vars

\* A refresh has failed while the cache held an expired entry for its
\* route; the entry is still there
C38_Witness ==
    /\ op[1] = "get_cached_cas_jwt" /\ pc[1] = "idle"
    /\ IsSome(result[1]) /\ ~Unwrap(result[1]).ok
    /\ hist[1].refresh_reqs = 1 /\ hist[1].inserts = 0
    /\ route[1] \in DOMAIN TOKEN_CACHE
    /\ now >= TOKEN_CACHE[route[1]].expires_at

(***************************************************************************)
(* The token a call returns and the entries a refresh writes, checked      *)
(* under SpecRace                                                          *)
(***************************************************************************)
\* get_cached_cas_jwt of thread t returns Ok in this step
CasJwtReturns(t) ==
    /\ op[t] = "get_cached_cas_jwt"
    /\ pc[t] \in CasPcs /\ pc'[t] = "idle"
    /\ IsSome(result'[t]) /\ Unwrap(result'[t]).ok

\* The token thread t returns in this step is the entry cached under its
\* route, or the token its own refresh request to that route was answered
\* with
TokenIsOfTheRoute(t) ==
    LET token == Unwrap(Unwrap(result'[t]).val)
    IN /\ token.access_token.route = route[t]
       /\ \/ /\ pc[t] = "cas_get"
             /\ route[t] \in DOMAIN TOKEN_CACHE
             /\ token = TOKEN_CACHE[route[t]].value
             /\ TOKEN_CACHE' = TOKEN_CACHE
          \/ /\ pc[t] = "cas_insert"
             /\ hist[t].refresh_reqs = 1
             /\ token = Unwrap(jwt[t])

\* A step that changes the cache is the insert of a thread and changes the
\* entry of that thread's route only
OnlyTheRouteIsWritten ==
    TOKEN_CACHE' # TOKEN_CACHE =>
        \E t \in Threads :
            /\ CacheToken(t)
            /\ DOMAIN TOKEN_CACHE' = DOMAIN TOKEN_CACHE \cup {route[t]}
            /\ \A k \in DOMAIN TOKEN_CACHE :
                  k # route[t] => TOKEN_CACHE'[k] = TOKEN_CACHE[k]
            /\ TOKEN_CACHE'[route[t]].value = Unwrap(jwt[t])

\* C39: a token returned by get_cached_cas_jwt(K) is the entry cached under
\* exactly K or a token fetched from route K in that call, never a token of
\* another route, and a refresh for K changes only the entry of K, under
\* every interleaving of the threads; the entry under a key is always a
\* token of that key's route.
C39_TokenBelongsToItsRoute ==
    /\ [](\A k \in DOMAIN TOKEN_CACHE : TOKEN_CACHE[k].value.access_token.route = k)
    /\ [][/\ \A t \in Threads : CasJwtReturns(t) => TokenIsOfTheRoute(t)
          /\ OnlyTheRouteIsWritten]_vars

\* Both routes are cached and both threads have returned, each the token of
\* its own route
C39_Witness ==
    /\ DOMAIN TOKEN_CACHE = Routes
    /\ \A t \in Threads :
          /\ op[t] = "get_cached_cas_jwt" /\ pc[t] = "idle"
          /\ IsSome(result[t]) /\ Unwrap(result[t]).ok
          /\ Unwrap(Unwrap(result[t]).val).access_token.route = route[t]
    /\ route[1] # route[2]

(***************************************************************************)
(* Termination of download_file: one caller thread, every request and the  *)
(* transfer engine returning in every way they can                         *)
(***************************************************************************)
\* What the servers, the file system and the transfer engine do to the
\* running call
Answered ==
    \/ \E ans \in CoarseMetaAnswers : MetaHead(1, ans)
    \/ \E ans \in CoarseMetaAnswers : MetaGet(1, ans)
    \/ \E mkdir_ok \in BOOLEAN : XetPrepare(1, mkdir_ok)
    \/ GetCachedTokenLock(1)
    \/ GetCachedToken(1)
    \/ \E ans \in RefreshAnswers(route[1], Serials, CoarseExps(now)) :
          CasRefreshAnswer(1, ans)
    \/ CacheTokenLock(1)
    \/ CacheToken(1)
    \/ \E engine_ok \in BOOLEAN : XetExecute(1, engine_ok)
    \/ \E o \in ByteOutcomes : HttpGet(1, o[1], o[2])
    \/ \E o \in ByteOutcomes : LegacyGet(1, o[1], o[2])

NextLive ==
    \/ \E r \in DirectRequests, accepted \in BOOLEAN, client_ok \in BOOLEAN :
          CallDownloadFile(1, r, accepted, client_ok)
    \/ Answered

\* Every request and the transfer engine return: the running call is not
\* left waiting forever
SpecLive == Init /\ [][NextLive]_vars /\ WF_vars(Answered)

\* The counts of the running download_file call are within their bounds
AttemptsBounded ==
    /\ hist[1].heads <= Len(MetadataUrls(1))
    /\ hist[1].gets <= hist[1].heads
    /\ hist[1].refresh_reqs <= 1
    /\ hist[1].transfers <= 1
    /\ hist[1].http_gets <= 1
    /\ hist[1].legacy_gets <= Len(LegacyUrls)

\* Each request of a loop is the one of the candidate the loop is at, and
\* the loops only move forward: no candidate is tried twice
OneRequestPerCandidate ==
    started' = started =>
        /\ hist'[1].heads > hist[1].heads
              => pc[1] = "meta_head" /\ hist'[1].heads = cand[1]
        /\ hist'[1].gets > hist[1].gets
              => pc[1] = "meta_get" /\ hist[1].heads = cand[1]
                 /\ hist'[1].gets = hist[1].gets + 1
                 /\ (pc'[1] = "meta_head" => cand'[1] = cand[1] + 1)
        /\ hist'[1].legacy_gets > hist[1].legacy_gets
              => pc[1] = "legacy_get" /\ hist'[1].legacy_gets = cand[1]
        /\ pc[1] = "meta_head" /\ pc'[1] = "meta_head" => cand'[1] = cand[1] + 1
        /\ pc[1] = "legacy_get" /\ pc'[1] = "legacy_get" => cand'[1] = cand[1] + 1

\* C40: provided every request and the transfer engine return, each
\* download_file call ends, with success or with failure, after a bounded
\* number of attempts: at most one HEAD and one GET for each metadata
\* candidate, at most one token refresh, one transfer, one HTTP-direct
\* fetch and one GET for each Legacy candidate; nothing is retried.
C40_DownloadFileTerminates ==
    /\ []AttemptsBounded
    /\ [][OneRequestPerCandidate]_vars
    /\ (pc[1] # "idle") ~> (pc[1] = "idle" /\ IsSome(result[1]))

\* A call has ended in failure after every strategy was tried: several
\* metadata candidates were probed, then the token refresh, the HTTP-direct
\* fetch and every Legacy candidate failed
C40_Witness ==
    /\ pc[1] = "idle" /\ op[1] = "download_file"
    /\ IsSome(result[1]) /\ ~Unwrap(result[1]).ok
    /\ hist[1].heads > 1 /\ hist[1].gets >= 1
    /\ hist[1].refresh_reqs = 1
    /\ hist[1].http_gets = 1
    /\ hist[1].legacy_gets = Len(LegacyUrls)

====
